---- MODULE Spec2Model ----
(***************************************************************************)
(* CineSync watch-party relay: the room state machine of the three         *)
(* servers of the repository.                                              *)
(*   mode = "socket"  the standalone Socket.IO server     (server.js)      *)
(*   mode = "vercel"  the serverless Socket.IO handler    (api/socket)     *)
(*   mode = "http"    the HTTP polling server             (index.js)       *)
(* A behaviour runs one of the servers, with the requests of one scope;     *)
(* the server and the scope are chosen in Init.                            *)
(*                                                                         *)
(* Units.  JavaScript numbers are modelled as integers in fixed units:     *)
(* clock readings (Date.now(), ts) in milliseconds, video positions (at,   *)
(* to) in milliseconds of video time, rates in thousandths (1 is 1000).    *)
(***************************************************************************)
EXTENDS Integers, Sequences, FiniteSets, TLC

VARIABLES mode, scope, now, rooms, joinedRoomId, connected, last, browser, app

vars == <<mode, scope, now, rooms, joinedRoomId, connected, last, browser, app>>

----------------------------------------------------------------------------
(* Bounds of the model.                                                    *)

\* most chat messages stored by the HTTP server in the rooms and text scopes
MaxMessages == 1
\* the longest time, in clock steps, between a command and a sync request
MaxDelayTicks == 5
\* most lines of its own the page of the polling client writes to its chat
\* log before the log is rebuilt
MaxLogLines == 1

RateOne == 1000

\* one step of the server clock, the first clock reading, and how far a
\* client's clock may run ahead of the server's (all in milliseconds)
TickMs == RateOne
Epoch == 5 * TickMs
SkewMs == TickMs \div 2

Clients == {"c1", "c2", "c3"}

Modes == {"socket", "vercel", "http"}
Scopes == {"playback", "rooms", "clock", "poll", "chat", "log", "text", "handover", "apply",
           "feedback", "ended"}
PushModes == {"socket", "vercel"}

----------------------------------------------------------------------------
(* JavaScript values that reach the playback snapshot.                     *)

Null == "null"

Num(n) == [t |-> "num", v |-> n]
Undefined == [t |-> "undefined", v |-> 0]
NaN == [t |-> "NaN", v |-> 0]

\* Number(x): a number stays, undefined becomes NaN.
ToNumber(x) == IF x.t = "num" THEN x ELSE NaN

\* truthiness of a number-or-undefined value: 0, NaN and undefined are falsy.
Truthy(x) == x.t = "num" /\ x.v # 0

\* x || d
Or(x, d) == IF Truthy(x) THEN x ELSE d

----------------------------------------------------------------------------
(* Room ids are strings, modelled as sequences of one-character strings;   *)
(* the empty sequence is the empty string (and the null joinedRoomId).     *)

alphabet == <<"A","B","C","D","E","F","G","H","J","K","L","M","N","P","Q","R",
              "S","T","U","V","W","X","Y","Z","2","3","4","5","6","7","8","9">>

RoomIdLen == 6

\* the values Math.floor(Math.random()*alphabet.length) takes in the model
RandomDraws == {0, Len(alphabet) - 1}

\* makeRoomId() with every one of its six draws equal to d
makeRoomId(d) == [i \in 1..RoomIdLen |-> alphabet[d + 1]]

NoRoom == <<>>

RECURSIVE TrimLeft(_)
TrimLeft(s) == IF s # <<>> /\ Head(s) = " " THEN TrimLeft(Tail(s)) ELSE s

RECURSIVE TrimRight(_)
TrimRight(s) ==
    IF s # <<>> /\ s[Len(s)] = " " THEN TrimRight(SubSeq(s, 1, Len(s) - 1)) ELSE s

\* String.prototype.trim
Trim(s) == TrimRight(TrimLeft(s))

----------------------------------------------------------------------------
(* Sources.                                                                *)

NullSource == [t |-> "null", type |-> "", url |-> "", videoId |-> ""]
Source(type, url, videoId) ==
    [t |-> "object", type |-> type, url |-> url, videoId |-> videoId]

\* set-source payloads: a field that is "" is missing (or empty), both falsy;
\* present = FALSE is a request without a source object
SourcePayloads ==
    { [present |-> TRUE, type |-> "youtube", url |-> "yt", videoId |-> "vid"],
      [present |-> TRUE, type |-> "video", url |-> "mp4", videoId |-> ""],
      [present |-> TRUE, type |-> "youtube", url |-> "", videoId |-> "vid"],
      [present |-> FALSE, type |-> "", url |-> "", videoId |-> ""] }

----------------------------------------------------------------------------
(* Rooms.                                                                  *)

InitialPlayback(t) ==
    [status |-> "paused", at |-> Num(0), rate |-> Num(RateOne), ts |-> Num(t)]

\* the browser of the polling client before it joins: current = { source: null,
\* playback: null }, player = null
NullPlayback == [status |-> "null", at |-> Undefined, rate |-> Undefined, ts |-> Undefined]
NoPlayer == [type |-> "none", video |-> NullSource, status |-> "none"]

\* the page of the Socket.IO client before it joins: current = { source: null,
\* playback: null }, player = null
NoAppPlayback == [status |-> "null", at |-> 0, rate |-> 0, ts |-> 0]
NoAppPlayer == [type |-> "none", time |-> 0, rate |-> RateOne, status |-> "paused"]

\* what a handler has done so far: the page and its record of the handler
Idle(op) ==
    [op |-> op, kind |-> "", by |-> "", sent |-> <<>>]

NewRoom(rid, t) ==
    [id |-> rid, hostId |-> Null, participants |-> <<>>, source |-> NullSource,
     playback |-> InitialPlayback(t), messages |-> <<>>]

ParticipantIds(room) == {room.participants[i].id : i \in DOMAIN room.participants}

\* a list that takes a second entry for a key it holds
MapSetAppend(parts, p) == Append(parts, p)

\* a list that holds the entry set last and no other
MapSetAlone(parts, p) == << p >>

\* Map.prototype.set: an existing key keeps its position, a new key is appended
MapSet(parts, p) ==
    IF \E i \in DOMAIN parts : parts[i].id = p.id
    THEN [i \in DOMAIN parts |-> IF parts[i].id = p.id THEN p ELSE parts[i]]
    ELSE Append(parts, p)

\* Map.prototype.delete
MapDelete(parts, cid) == SelectSeq(parts, LAMBDA p : p.id # cid)

\* a map whose iterator is done at once
FirstKeyNone(parts) == Null

\* room.participants.keys().next(): the first key in insertion order, or null
FirstKey(parts) == IF parts = <<>> THEN Null ELSE parts[1].id

----------------------------------------------------------------------------
(* What the last handler did: the request (op, target room; whether the   *)
(* caller was the host and a participant of that room when the request     *)
(* arrived), the HTTP status of the reply (0 in push mode) and the events   *)
(* the handler emitted, in order.                                          *)

NoRoomRec == NewRoom(NoRoom, 0)

\* an event with its payload: socket.emit(ev, data) reaches the caller's socket,
\* io.to(rid).emit(ev, data) the sockets in the Socket.IO room rid, and
\* res.json(data) is the body of an HTTP reply
Emit(to, rid, ev, data) == [to |-> to, room |-> rid, ev |-> ev, data |-> data]

\* a summary that names no host
summarizeRoomHostless(room) ==
    [id |-> room.id, hostId |-> Null, source |-> room.source,
     playback |-> room.playback]

summarizeRoom(room) ==
    [id |-> room.id, hostId |-> room.hostId, source |-> room.source,
     playback |-> room.playback]

listParticipants(room) ==
    [i \in DOMAIN room.participants |->
        [id |-> room.participants[i].id, name |-> room.participants[i].name]]

Done(op, c, rid, status, emits) ==
    [op |-> op, rid |-> rid,
     wasHost |-> rid \in DOMAIN rooms /\ rooms[rid].hostId = c,
     wasMember |-> rid \in DOMAIN rooms /\ c \in ParticipantIds(rooms[rid]),
     stored |-> IF rid \in DOMAIN rooms THEN Len(rooms[rid].messages) ELSE 0,
     status |-> status, emits |-> emits]

MessagesShown == 20

\* the room after POST /api/room/join of c1 with the code AAAAAA and nineteen
\* POST /api/room/AAAAAA/chat of c1, all at the first clock reading
PostedRoom ==
    [NewRoom(makeRoomId(0), Epoch) EXCEPT
        !.hostId = "c1",
        !.participants = << [id |-> "c1", name |-> "Guest", lastSeen |-> Epoch] >>,
        !.messages = [i \in 1..(MessagesShown - 1) |->
                        [id |-> Epoch, text |-> <<"h", "i">>, name |-> "Anon",
                         userId |-> "c1", timestamp |-> Epoch]]]

\* the registry at the start: empty, but for the HTTP server in the scope
\* "log", which starts with the room above
FirstRooms ==
    IF mode = "http" /\ scope = "log"
    THEN [r \in {makeRoomId(0)} |-> PostedRoom] ELSE << >>

Init ==
    /\ mode \in Modes
    /\ scope \in Scopes
    /\ now = Epoch
    /\ rooms = FirstRooms
    /\ joinedRoomId = [c \in Clients |-> NoRoom]
    /\ connected = [c \in Clients |-> TRUE]
    /\ last = [op |-> "init", rid |-> NoRoom, wasHost |-> FALSE, wasMember |-> FALSE,
               stored |-> 0, status |-> 0, emits |-> <<>>]
    /\ browser = [roomId |-> NoRoom, source |-> NullSource, playback |-> NullPlayback,
                  player |-> NoPlayer, loads |-> {}, chatLog |-> <<>>]
    /\ app = [isHost |-> FALSE, source |-> NullSource, playback |-> NoAppPlayback,
              player |-> NoAppPlayer, suppress |-> FALSE, timers |-> 0, events |-> <<>>,
              loads |-> {}, uploading |-> FALSE, ahead |-> 0, did |-> Idle("init")]

\* Date.now() advances
Tick(maxTicks) ==
    /\ now < Epoch + maxTicks * TickMs
    /\ now' = now + TickMs
    /\ last' = Done("tick", Null, NoRoom, 0, <<>>)
    /\ UNCHANGED <<browser, app, mode, scope, rooms, joinedRoomId, connected>>

----------------------------------------------------------------------------
(* Payload values of the playback commands.                                *)

PositionValues == {Undefined, Num(2 * TickMs)}
RateValues == {Undefined, Num(2 * RateOne)}
\* the ts a sender puts in its payload, its own Date.now(): missing, equal to
\* the server's clock, or running ahead of it
TsKinds == {"none", "ahead"}
TsOf(k) == CASE k = "none" -> Undefined
             [] k = "server" -> Num(now)
             [] k = "ahead" -> Num(now + SkewMs)

----------------------------------------------------------------------------
(* The Socket.IO servers (server.js and the serverless handler).  A client *)
(* is a socket: its id is socket.id, joinedRoomId[c] is the closure        *)
(* variable of its connection, connected[c] is false after its disconnect. *)

\* a registry that forgets a room nobody is in
getOrCreateRoomForgetful(rid) ==
    IF rid \in DOMAIN rooms /\ rooms[rid].participants # <<>> THEN rooms[rid]
    ELSE NewRoom(rid, now)

getOrCreateRoom(rid) ==
    IF rid \in DOMAIN rooms THEN rooms[rid] ELSE NewRoom(rid, now)

\* a server that takes every caller for the host
NotHostNever(room, c) == FALSE

\* room.hostId !== socket.id
NotHost(room, c) == room.hostId # c

\* a join that makes every joiner the host, and one that makes none the host
AssignHostAlways(room, c) == [room EXCEPT !.hostId = c]
AssignHostNever(room, c) == room

\* if (!room.hostId) room.hostId = socket.id
AssignHostIfNone(room, c) ==
    IF room.hostId = Null THEN [room EXCEPT !.hostId = c] ELSE room

\* a departure that leaves hostId alone
ReassignHostKeep(room, c) == room

\* host reassignment after room.participants.delete(socket.id)
ReassignHost(room, c) ==
    IF room.hostId = c
    THEN [room EXCEPT !.hostId = FirstKey(room.participants)]
    ELSE room

Put(rid, room) == [r \in DOMAIN rooms \cup {rid} |-> IF r = rid THEN room ELSE rooms[r]]

Ignore(op, c, rid) ==
    /\ last' = Done(op, c, rid, 0, <<>>)
    /\ UNCHANGED <<browser, app, mode, scope, now, rooms, joinedRoomId, connected>>

Join(c, roomId, name, d) ==
    /\ mode \in PushModes
    /\ connected[c]
    /\ LET rid == IF roomId # <<>> /\ Trim(roomId) # <<>> THEN Trim(roomId)
                  ELSE makeRoomId(d)
           room0 == getOrCreateRoom(rid)
           room1 == [room0 EXCEPT !.participants =
                        MapSet(@, [id |-> c, name |-> IF name = "" THEN "Guest" ELSE name])]
           room2 == AssignHostIfNone(room1, c)
       IN /\ rooms' = Put(room2.id, room2)
          /\ joinedRoomId' = [joinedRoomId EXCEPT ![c] = room2.id]
          /\ last' = Done("join", c, rid, 0,
                          << Emit("socket", NoRoom, "room:welcome",
                                  [room |-> summarizeRoom(room2),
                                   participants |-> listParticipants(room2)]),
                             Emit("room", room2.id, "room:participants",
                                  listParticipants(room2)),
                             Emit("room", room2.id, "room:state", summarizeRoom(room2)) >>)
    /\ UNCHANGED <<browser, app, mode, scope, now, connected>>

Departure(room) ==
    << Emit("room", room.id, "room:participants", listParticipants(room)),
       Emit("room", room.id, "room:state", summarizeRoom(room)) >>

\* room:leave (server.js only): the room and the broadcasts it leaves behind
AfterLeave(c) ==
    LET rid   == joinedRoomId[c]
        room1 == [rooms[rid] EXCEPT !.participants = MapDelete(@, c)]
        room2 == ReassignHost(room1, c)
    IN [room |-> room2, emits |-> Departure(room2)]

\* disconnect: the room and the broadcasts it leaves behind
AfterDisconnect(c) ==
    LET rid   == joinedRoomId[c]
        room1 == [rooms[rid] EXCEPT !.participants = MapDelete(@, c)]
        room2 == ReassignHost(room1, c)
    IN [room |-> room2, emits |-> Departure(room2)]

Leave(c) ==
    /\ mode = "socket"
    /\ connected[c]
    /\ LET rid == joinedRoomId[c] IN
       IF rid = NoRoom \/ rid \notin DOMAIN rooms
       THEN Ignore("leave", c, rid)
       ELSE /\ rooms' = Put(rid, AfterLeave(c).room)
            /\ joinedRoomId' = [joinedRoomId EXCEPT ![c] = NoRoom]
            /\ last' = Done("leave", c, rid, 0, AfterLeave(c).emits)
            /\ UNCHANGED <<browser, app, mode, scope, now, connected>>

\* the serverless socket handler registers no listener for room:leave:
\* the event is received and dropped
VercelLeave(c) ==
    /\ mode = "vercel"
    /\ connected[c]
    /\ Ignore("leave", c, joinedRoomId[c])

BecomeHost(c) ==
    /\ mode = "socket"
    /\ connected[c]
    /\ LET rid == joinedRoomId[c] IN
       IF rid = NoRoom \/ rid \notin DOMAIN rooms
       THEN Ignore("become-host", c, rid)
       ELSE IF rooms[rid].hostId = Null
            THEN /\ rooms' = Put(rid, [rooms[rid] EXCEPT !.hostId = c])
                 /\ last' = Done("become-host", c, rid, 0,
                                 << Emit("room", rid, "room:state",
                                         summarizeRoom([rooms[rid] EXCEPT !.hostId = c])) >>)
                 /\ UNCHANGED <<browser, app, mode, scope, now, joinedRoomId, connected>>
            ELSE Ignore("become-host", c, rid)

Disconnect(c) ==
    /\ mode \in PushModes
    /\ connected[c]
    /\ connected' = [connected EXCEPT ![c] = FALSE]
    /\ LET rid == joinedRoomId[c] IN
       IF rid = NoRoom \/ rid \notin DOMAIN rooms
       THEN /\ last' = Done("disconnect", c, rid, 0, <<>>)
            /\ UNCHANGED rooms
       ELSE /\ rooms' = Put(rid, AfterDisconnect(c).room)
            /\ last' = Done("disconnect", c, rid, 0, AfterDisconnect(c).emits)
    /\ UNCHANGED <<browser, app, mode, scope, now, joinedRoomId>>

\* the room a socket's player:* and sync:request handlers act on, if any:
\* if (!joinedRoomId) return; room = rooms.get(joinedRoomId); if (!room) return
HasJoinedRoom(c) == joinedRoomId[c] # NoRoom /\ joinedRoomId[c] \in DOMAIN rooms

\* payload.videoId || null
StoredSource(p) == Source(p.type, p.url, IF p.videoId = "" THEN Null ELSE p.videoId)

\* a reset stamped with the time the room was created at the first clock reading
ResetPlaybackStale == InitialPlayback(Epoch)

ResetPlayback == [status |-> "paused", at |-> Num(0), rate |-> Num(RateOne), ts |-> Num(now)]

\* !payload || !payload.type || !payload.url
BadSourcePayload(p) == ~p.present \/ p.type = "" \/ p.url = ""

\* the player:set-source handler of the standalone server
SetSourceHandler(c, p) ==
    LET rid == joinedRoomId[c] IN
       IF ~HasJoinedRoom(c) \/ NotHost(rooms[rid], c) \/ BadSourcePayload(p)
       THEN Ignore("set-source", c, rid)
       ELSE /\ rooms' = Put(rid, [rooms[rid] EXCEPT !.source = StoredSource(p),
                                                     !.playback = ResetPlayback])
            /\ last' = Done("set-source", c, rid, 0,
                            << Emit("room", rid, "player:set-source",
                                    [source |-> StoredSource(p),
                                     playback |-> ResetPlayback]) >>)
            /\ UNCHANGED <<browser, app, mode, scope, now, joinedRoomId, connected>>

SetSource(c, p) ==
    /\ mode = "socket"
    /\ connected[c]
    /\ SetSourceHandler(c, p)

VercelSetSource(c, p) ==
    /\ mode = "vercel"
    /\ connected[c]
    /\ LET rid == joinedRoomId[c] IN
       IF ~HasJoinedRoom(c) \/ NotHost(rooms[rid], c) \/ BadSourcePayload(p)
       THEN Ignore("set-source", c, rid)
       ELSE IF p.type # "youtube"
            THEN /\ last' = Done("set-source", c, rid, 0, << Emit("socket", NoRoom, "error", "youtube-only") >>)
                 /\ UNCHANGED <<browser, app, mode, scope, now, rooms, joinedRoomId, connected>>
            ELSE /\ rooms' = Put(rid, [rooms[rid] EXCEPT !.source = StoredSource(p),
                                                          !.playback = ResetPlayback])
                 /\ last' = Done("set-source", c, rid, 0,
                                 << Emit("room", rid, "player:set-source",
                                         [source |-> StoredSource(p),
                                          playback |-> ResetPlayback]) >>)
                 /\ UNCHANGED <<browser, app, mode, scope, now, joinedRoomId, connected>>

\* Number(ts) || Date.now()
StampTs(ts) == Or(ToNumber(ts), Num(now))

PlayPlayback(pb, at, rate, ts) ==
    [status |-> "playing", at |-> Or(ToNumber(at), Num(0)),
     rate |-> Or(ToNumber(rate), Num(RateOne)), ts |-> StampTs(ts)]

PausePlayback(pb, at, ts) ==
    [pb EXCEPT !.status = "paused", !.at = Or(ToNumber(at), Num(0)), !.ts = StampTs(ts)]

\* a seek that builds its snapshot afresh
SeekPlaybackAfresh(pb, to, ts) ==
    [status |-> "playing", at |-> Or(ToNumber(to), Num(0)), rate |-> Num(RateOne),
     ts |-> StampTs(ts)]

SeekPlayback(pb, to, ts) ==
    [pb EXCEPT !.at = Or(ToNumber(to), Num(0)), !.ts = StampTs(ts)]

RatePlayback(pb, rate, ts) ==
    [pb EXCEPT !.rate = Or(ToNumber(rate), Num(RateOne)), !.ts = StampTs(ts)]

\* the payload of the event a player:* handler sends to the room
Delta(op, pb) ==
    CASE op = "play" -> [at |-> pb.at, rate |-> pb.rate, ts |-> pb.ts]
      [] op = "pause" -> [at |-> pb.at, ts |-> pb.ts]
      [] op = "seek" -> [to |-> pb.at, ts |-> pb.ts]
      [] op = "rate" -> [rate |-> pb.rate, ts |-> pb.ts]

\* the common shape of the four player:* handlers
PlayerCommand(op, c, pb) ==
    /\ mode \in PushModes
    /\ connected[c]
    /\ LET rid == joinedRoomId[c] IN
       IF ~HasJoinedRoom(c) \/ NotHost(rooms[rid], c)
       THEN Ignore(op, c, rid)
       ELSE /\ rooms' = Put(rid, [rooms[rid] EXCEPT !.playback = pb])
            /\ last' = Done(op, c, rid, 0, << Emit("room", rid, "player:" \o op, Delta(op, pb)) >>)
            /\ UNCHANGED <<browser, app, mode, scope, now, joinedRoomId, connected>>

CurrentPlayback(c) ==
    IF HasJoinedRoom(c) THEN rooms[joinedRoomId[c]].playback ELSE NoRoomRec.playback

Play(c, at, rate, ts) ==
    PlayerCommand("play", c, PlayPlayback(CurrentPlayback(c), at, rate, ts))

Pause(c, at, ts) ==
    PlayerCommand("pause", c, PausePlayback(CurrentPlayback(c), at, ts))

Seek(c, to, ts) ==
    PlayerCommand("seek", c, SeekPlayback(CurrentPlayback(c), to, ts))

Rate(c, rate, ts) ==
    PlayerCommand("rate", c, RatePlayback(CurrentPlayback(c), rate, ts))

\* a clock that runs on while the player is paused, and one that takes every
\* rate for 1
effectiveTimeRunning(playback, t) ==
    Num(playback.at.v + ((t - playback.ts.v) * playback.rate.v) \div RateOne)

effectiveTimeUnitRate(playback, t) ==
    IF playback.status # "playing" THEN playback.at
    ELSE Num(playback.at.v + (t - playback.ts.v))

\* effectiveTime with the clock reading t for Date.now(): the position is in
\* milliseconds of video, so dt seconds at rate r are (t - ts) * r / 1000 with
\* r in thousandths; arithmetic on a value that is no number gives NaN
effectiveTimeAt(playback, t) ==
    IF playback.status # "playing" THEN playback.at
    ELSE LET rate == Or(playback.rate, Num(RateOne)) IN
         IF playback.at.t = "num" /\ playback.ts.t = "num" /\ rate.t = "num"
         THEN Num(playback.at.v + ((t - playback.ts.v) * rate.v) \div RateOne)
         ELSE NaN

effectiveTime(playback) == effectiveTimeAt(playback, now)

\* a reply that holds the stored snapshot
NowPlaybackStored(room) ==
    [status |-> room.playback.status, at |-> room.playback.at,
     rate |-> room.playback.rate, ts |-> room.playback.ts, source |-> room.source,
     hostId |-> room.hostId]

\* the nowPlayback object of sync:request
NowPlayback(room) ==
    [status |-> room.playback.status, at |-> effectiveTime(room.playback),
     rate |-> room.playback.rate, ts |-> Num(now), source |-> room.source,
     hostId |-> room.hostId]

SyncRequest(c) ==
    /\ mode \in PushModes
    /\ connected[c]
    /\ last' = Done("sync-request", c, joinedRoomId[c], 0,
                    IF HasJoinedRoom(c)
                    THEN << Emit("socket", NoRoom, "sync:state",
                                 NowPlayback(rooms[joinedRoomId[c]])) >>
                    ELSE <<>>)
    /\ UNCHANGED <<browser, app, mode, scope, now, rooms, joinedRoomId, connected>>

ChatMaxLen == 1000

\* a text one character longer than the limit, its first and last characters
\* unlike the rest
LongText ==
    [i \in 1..(ChatMaxLen + 1) |->
        IF i = 1 THEN "a" ELSE IF i = ChatMaxLen + 1 THEN "z" ELSE "x"]

\* the last 1000 characters: slice(-1000)
SliceTail(text) ==
    SubSeq(text, IF Len(text) < ChatMaxLen THEN 1 ELSE Len(text) - ChatMaxLen + 1, Len(text))

\* String(text).slice(0, 1000)
Slice(text) == SubSeq(text, 1, IF Len(text) < ChatMaxLen THEN Len(text) ELSE ChatMaxLen)

Chat(c, text, name) ==
    /\ mode \in PushModes
    /\ connected[c]
    /\ last' = Done("chat", c, joinedRoomId[c], 0,
                    IF joinedRoomId[c] = NoRoom \/ text = <<>>
                    THEN <<>>
                    ELSE << Emit("room", joinedRoomId[c], "chat:message",
                                 [text |-> Slice(text),
                                  name |-> IF name = "" THEN "Anon" ELSE name,
                                  at |-> now, from |-> c]) >>)
    /\ UNCHANGED <<browser, app, mode, scope, now, rooms, joinedRoomId, connected>>

----------------------------------------------------------------------------
(* The HTTP polling server (index.js).  A client is a browser with a       *)
(* generated user id; every request names its room in the URL.             *)

Reply(op, u, rid, status) ==
    /\ last' = Done(op, u, rid, status, <<>>)
    /\ UNCHANGED <<browser, app, mode, scope, now, rooms, joinedRoomId, connected>>

\* the room after POST /api/room/join, and the body of the reply
HttpJoinedRoom(u, roomId, name, d) ==
    LET rid == IF roomId = <<>> THEN makeRoomId(d) ELSE roomId
        room0 == getOrCreateRoom(rid)
        room1 == [room0 EXCEPT !.participants =
                     MapSet(@, [id |-> u, name |-> IF name = "" THEN "Guest" ELSE name,
                                lastSeen |-> now])]
    IN AssignHostIfNone(room1, u)

HttpJoinBody(room) ==
    [room |-> summarizeRoom(room), participants |-> room.participants]

HttpJoin(u, roomId, name, d) ==
    /\ mode = "http"
    /\ LET room2 == HttpJoinedRoom(u, roomId, name, d)
           rid == room2.id
       IN /\ rooms' = Put(rid, room2)
          /\ last' = Done("join", u, rid, 200,
                          << Emit("response", NoRoom, "json", HttpJoinBody(room2)) >>)
    /\ UNCHANGED <<browser, app, mode, scope, now, joinedRoomId, connected>>

\* room.messages.slice(-20)
LastMessages(msgs) ==
    IF Len(msgs) > MessagesShown
    THEN SubSeq(msgs, Len(msgs) - MessagesShown + 1, Len(msgs)) ELSE msgs

\* a reply that holds the playback of the room with the source it had when it
\* was created
HttpGetBodySourceless(room) ==
    [room |-> summarizeRoom([room EXCEPT !.source = NullSource]),
     participants |-> room.participants, messages |-> LastMessages(room.messages)]

\* the body of the reply of GET /api/room/:roomId
HttpGetBody(room) ==
    [room |-> summarizeRoom(room), participants |-> room.participants,
     messages |-> LastMessages(room.messages)]

\* a read that creates the room it is asked for, as the join route does
HttpGetRoomCreating(u, roomId) ==
    /\ mode = "http"
    /\ rooms' = Put(roomId, getOrCreateRoom(roomId))
    /\ last' = Done("get", u, roomId, 200,
                    << Emit("response", NoRoom, "json",
                            HttpGetBody(getOrCreateRoom(roomId))) >>)
    /\ UNCHANGED <<browser, app, mode, scope, now, joinedRoomId, connected>>

HttpGetRoom(u, roomId) ==
    /\ mode = "http"
    /\ IF roomId \notin DOMAIN rooms THEN Reply("get", u, roomId, 404)
       ELSE /\ last' = Done("get", u, roomId, 200,
                            << Emit("response", NoRoom, "json",
                                    HttpGetBody(rooms[roomId])) >>)
            /\ UNCHANGED <<browser, app, mode, scope, now, rooms, joinedRoomId, connected>>

\* room.source = source: whatever the request body holds, a missing source included
HttpStoredSource(p) ==
    IF p.present THEN Source(p.type, p.url, p.videoId)
    ELSE [t |-> "undefined", type |-> "", url |-> "", videoId |-> ""]

HttpSetSource(u, roomId, p) ==
    /\ mode = "http"
    /\ IF roomId \notin DOMAIN rooms THEN Reply("set-source", u, roomId, 404)
       ELSE IF NotHost(rooms[roomId], u) THEN Reply("set-source", u, roomId, 403)
       ELSE /\ rooms' = Put(roomId, [rooms[roomId] EXCEPT !.source = HttpStoredSource(p),
                                                          !.playback = ResetPlayback])
            /\ last' = Done("set-source", u, roomId, 200, <<>>)
            /\ UNCHANGED <<browser, app, mode, scope, now, joinedRoomId, connected>>

HttpActions == {"play", "pause", "seek", "rate", "stop"}

\* the switch (action) of POST /api/room/:roomId/playback
HttpApply(pb, action, pos, rate) ==
    CASE action = "play" ->
           [status |-> "playing", at |-> pos, rate |-> Or(rate, Num(RateOne)), ts |-> Num(now)]
      [] action = "pause" ->
           [status |-> "paused", at |-> pos, rate |-> pb.rate, ts |-> Num(now)]
      [] action = "seek" -> [pb EXCEPT !.at = pos, !.ts = Num(now)]
      [] action = "rate" -> [pb EXCEPT !.rate = rate, !.ts = Num(now)]
      [] OTHER -> pb

HttpPlayback(u, roomId, action, pos, rate) ==
    /\ mode = "http"
    /\ IF roomId \notin DOMAIN rooms THEN Reply(action, u, roomId, 404)
       ELSE IF NotHost(rooms[roomId], u) THEN Reply(action, u, roomId, 403)
       ELSE /\ rooms' = Put(roomId, [rooms[roomId] EXCEPT
                                       !.playback = HttpApply(@, action, pos, rate)])
            /\ last' = Done(action, u, roomId, 200, <<>>)
            /\ UNCHANGED <<browser, app, mode, scope, now, joinedRoomId, connected>>

MessageCap == 100
MessageKeep == 50

\* room.messages.push(message); if (length > 100) room.messages = room.messages.slice(-50)
\* a cut that keeps the 50 oldest messages: slice(0, 50)
PushMessageKeepOldest(msgs, m) ==
    LET all == Append(msgs, m) IN
    IF Len(all) > MessageCap THEN SubSeq(all, 1, MessageKeep) ELSE all

PushMessage(msgs, m) ==
    LET all == Append(msgs, m) IN
    IF Len(all) > MessageCap THEN SubSeq(all, Len(all) - MessageKeep + 1, Len(all)) ELSE all

HttpChat(u, roomId, text, name, maxMessages) ==
    /\ mode = "http"
    /\ IF roomId \notin DOMAIN rooms THEN Reply("chat", u, roomId, 404)
       ELSE /\ Len(rooms[roomId].messages) < maxMessages
            /\ rooms' = Put(roomId, [rooms[roomId] EXCEPT !.messages =
                    PushMessage(@, [id |-> now, text |-> Slice(text),
                                    name |-> IF name = "" THEN "Anon" ELSE name,
                                    userId |-> u, timestamp |-> now])])
            /\ last' = Done("chat", u, roomId, 200, <<>>)
            /\ UNCHANGED <<browser, app, mode, scope, now, joinedRoomId, connected>>

----------------------------------------------------------------------------

(* The browser of the polling client (the HTTP client script).  It joins,  *)
(* then polls its room; a request, the server's handling of it and the     *)
(* script's handling of the reply are one step.  browser.source and        *)
(* browser.playback are current.source and current.playback, browser.player *)
(* is the player object (its type, the video it shows, whether it plays),   *)
(* browser.loads are the players being loaded, each with the source and the *)
(* playback its .then callback has captured, browser.chatLog are the        *)
(* children of the chat log element, in order.                              *)

\* log('system', text): a line of the page itself
log(b, text) ==
    [b EXCEPT !.chatLog = Append(@, [kind |-> "log", who |-> "System", text |-> text, at |-> 0])]

\* how many lines of the page itself the log holds
LogLines(b) == Cardinality({i \in DOMAIN b.chatLog : b.chatLog[i].kind = "log"})

\* addMsg(msg.name, msg.text, msg.timestamp, ...): the line of one message
addMsg(msg) ==
    [kind |-> "msg", who |-> msg.name, text |-> msg.text, at |-> msg.timestamp]

\* the lines of the messages of a reply, as updateMessages builds them
MessageLines(messages) == [i \in 1..Len(messages) |-> addMsg(messages[i])]

\* updateMessages(messages): the log is cleared and rebuilt when the number of
\* messages differs from the number of lines in the log
updateMessages(b, messages) ==
    IF Len(messages) # Len(b.chatLog)
    THEN [b EXCEPT !.chatLog = MessageLines(messages)]
    ELSE b

\* applyPlayback(pb): if (!player || !pb) return; then play() or pause()
applyPlayback(b, pb) ==
    IF b.player.type = "none" \/ pb.status = "null" THEN b
    ELSE [b EXCEPT !.player.status = IF pb.status = "playing" THEN "playing" ELSE "paused"]

\* updateSource(source, playback, { applyImmediately: true }): the player is
\* destroyed and a new one is loaded, for a source there is a player for
updateSource(b, source, playback) ==
    LET b1 == [b EXCEPT !.source = IF source.t = "object" THEN source ELSE NullSource,
                        !.playback = IF playback.status = "null" THEN @ ELSE playback]
    IN IF source.t # "object" THEN b1
       ELSE IF source.type \in {"youtube", "video"}
            THEN [b1 EXCEPT !.player = NoPlayer,
                            !.loads = @ \cup {[source |-> source, playback |-> playback]}]
            ELSE [b1 EXCEPT !.player = NoPlayer]

\* updateRoomState(data)
updateRoomState(b, data) ==
    LET b1 == IF b.source # data.room.source
              THEN updateSource(b, data.room.source, data.room.playback)
              ELSE IF b.playback # data.room.playback
                   THEN applyPlayback(b, data.room.playback)
                   ELSE b
           b2 == [b1 EXCEPT !.source = data.room.source, !.playback = data.room.playback]
    IN IF "messages" \in DOMAIN data THEN updateMessages(b2, data.messages) ELSE b2

\* the click on Join: POST /api/room/join, then me.roomId = data.room.id,
\* updateRoomState(data), log('system', 'Joined room ...') and startPolling()
BrowserJoin(u, roomId, name, d) ==
    /\ mode = "http"
    /\ LogLines(browser) < MaxLogLines
    /\ LET room2 == HttpJoinedRoom(u, roomId, name, d)
           body == HttpJoinBody(room2)
       IN /\ rooms' = Put(room2.id, room2)
          /\ last' = Done("join", u, room2.id, 200,
                          << Emit("response", NoRoom, "json", body) >>)
          /\ browser' = log(updateRoomState([browser EXCEPT !.roomId = body.room.id], body),
                             <<"j", "o", "i", "n", "e", "d">>)
    /\ UNCHANGED <<app, mode, scope, now, joinedRoomId, connected>>

\* a turn of the polling interval: GET /api/room/:roomId, then updateRoomState(data)
BrowserPoll(u) ==
    /\ mode = "http"
    /\ browser.roomId # NoRoom
    /\ browser.roomId \in DOMAIN rooms
    /\ LET body == HttpGetBody(rooms[browser.roomId]) IN
       /\ last' = Done("get", u, browser.roomId, 200,
                       << Emit("response", NoRoom, "json", body) >>)
       /\ browser' = updateRoomState(browser, body)
    /\ UNCHANGED <<app, mode, scope, now, rooms, joinedRoomId, connected>>

\* a player has loaded: the .then callback of loadYouTube / loadHtml5Video sets
\* player and applies the playback it captured
PlayerLoaded(u) ==
    /\ mode = "http"
    /\ \E l \in browser.loads :
          browser' = applyPlayback(
                        [browser EXCEPT !.player = [type |-> l.source.type,
                                                    video |-> l.source,
                                                    status |-> "unstarted"],
                                        !.loads = @ \ {l}],
                        l.playback)
    /\ last' = Done("loaded", u, browser.roomId, 0, <<>>)
    /\ UNCHANGED <<app, mode, scope, now, rooms, joinedRoomId, connected>>

----------------------------------------------------------------------------

(* The page of the Socket.IO client (the front end).  One page is          *)
(* modelled: app.isHost is me.isHost, app.source and app.playback are      *)
(* current.source and current.playback, app.player is the unified player   *)
(* (its type, and the position, rate and state of the element it wraps),   *)
(* app.suppress is _suppress, app.timers counts the pending                *)
(* setTimeout(..., 0) callbacks of suppress, app.events are the events the *)
(* player has queued and not yet delivered to its listeners (each with     *)
(* what caused it: the page applying remote state, or the user), app.loads *)
(* are the players being loaded, app.uploading is an upload whose fetch    *)
(* has not resolved, and app.did is what the handler that ran last did:    *)
(* its event, the player event it heard and what caused that, and what it  *)
(* emitted; app.ahead is how far the clock of the browser runs ahead of    *)
(* the server's.                                                           *)
(* Positions are in milliseconds, rates in thousandths; a rate of 0 stands *)
(* for a missing rate, a status "null" for a missing playback.             *)

\* if (Math.abs(cur - target) > 0.5): player:play and applyPlayback
DriftThreshold == 500
\* if (Math.abs(cur - target) > 0.35): sync:state
SyncThreshold == 350

\* most player events queued and not delivered, most timers pending
MaxEvents == 1
MaxTimers == 2
\* most players being loaded at a time
MaxLoads == 1

\* the player a load resolves with: at the start, paused, at normal speed
LoadedPlayer(type) == [type |-> type, time |-> 0, rate |-> RateOne, status |-> "paused"]

Abs(x) == IF x < 0 THEN 0 - x ELSE x

\* rate || 1
RateOr1(rate) == IF rate = 0 THEN RateOne ELSE rate

Queue(a, kind, by) == [a EXCEPT !.events = Append(@, [kind |-> kind, by |-> by])]

\* player.play(): the element starts and reports it (play, or the PLAYING
\* state change), unless it plays already
PlayerPlay(a, by) ==
    IF a.player.status = "playing" THEN a
    ELSE Queue([a EXCEPT !.player.status = "playing"], "play", by)

\* player.pause()
PlayerPause(a, by) ==
    IF a.player.status = "paused" THEN a
    ELSE Queue([a EXCEPT !.player.status = "paused"], "pause", by)

\* player.seek(t): v.currentTime = t reports seeked; the state changes of
\* the embedded player after seekTo are not modelled
PlayerSeek(a, t, by) ==
    LET a1 == [a EXCEPT !.player.time = t] IN
    IF a.player.type = "video" THEN Queue(a1, "seeked", by) ELSE a1

\* player.setRate(r): v.playbackRate = r reports ratechange when it changes
PlayerSetRate(a, r, by) ==
    LET a1 == [a EXCEPT !.player.rate = r] IN
    IF a.player.type = "video" /\ a.player.rate # r THEN Queue(a1, "ratechange", by) ELSE a1

\* suppress(fn), after fn has run: the flag is up and a timer is pending
Suppressed(a) == [a EXCEPT !.suppress = TRUE, !.timers = @ + 1]

----------------------------------------------------------------------------

\* nowMs(): Date.now() of the browser, which runs app.ahead milliseconds ahead
\* of the server's
nowMs == now + app.ahead

\* applyPlayback(pb) of the front end
AppApplyPlayback(a, pb) ==
    IF a.player.type = "none" \/ pb.status = "null" THEN a
    ELSE LET a1 == PlayerSetRate(a, RateOr1(pb.rate), "remote")
             target == IF pb.status = "playing" THEN pb.at + (nowMs - pb.ts) ELSE pb.at
             a2 == IF Abs(a1.player.time - target) > DriftThreshold
                   THEN PlayerSeek(a1, target, "remote") ELSE a1
             a3 == IF pb.status = "playing" THEN PlayerPlay(a2, "remote")
                   ELSE PlayerPause(a2, "remote")
         IN Suppressed(a3)

\* player.destroy(): the video element is paused, and reports it to the
\* listeners it still has; the embedded player is removed
Destroyed(a) ==
    LET a1 == IF a.player.type = "video" /\ a.player.status = "playing"
              THEN Queue(a, "pause", "remote") ELSE a
    IN [a1 EXCEPT !.player = NoAppPlayer]

\* updateSource(source, playback, opts) of the front end
AppUpdateSource(a, source, playback, applyImmediately) ==
    LET a1 == [a EXCEPT !.source = source,
                        !.playback = IF playback.status = "null" THEN @ ELSE playback]
    IN IF source.t # "object" THEN a1
       ELSE IF a1.player.type = "none" \/ a1.player.type # source.type \/ applyImmediately
            THEN LET a2 == Destroyed(a1) IN
                 IF source.type \in {"youtube", "video"}
                 THEN [a2 EXCEPT !.loads = @ \cup {[source |-> source, playback |-> playback]}]
                 ELSE a2
            ELSE AppApplyPlayback(a1, playback)

\* a handler of the page took it from app to a: the queue of player events
\* and the pending timers stay within their bounds
AppStep(a) ==
    /\ mode = "socket"
    /\ Len(a.events) <= MaxEvents
    /\ a.timers <= MaxTimers
    /\ Cardinality(a.loads) <= MaxLoads
    /\ app' = a
    /\ UNCHANGED <<mode, scope, now, rooms, joinedRoomId, connected, last, browser>>

\* the page as a handler finds it: the record of the last handler is cleared
Begin(op) == [app EXCEPT !.did = Idle(op)]

\* socket.on('room:welcome') and socket.on('room:state'): updateHost(room.hostId),
\* updateSource(room.source, room.playback)
AppRoomState(hostIsMe, source, playback) ==
    AppStep(AppUpdateSource([Begin("room:state") EXCEPT !.isHost = hostIsMe],
                            source, playback, FALSE))

\* socket.on('player:set-source')
AppSetSource(source, playback) ==
    AppStep(AppUpdateSource(Begin("player:set-source"), source, playback, TRUE))

\* socket.on('player:play'): the page after the handler
OnPlay(at, rate, ts) ==
    LET a0 == Begin("player:play") IN
    IF a0.player.type = "none" THEN a0
    ELSE LET a1 == PlayerSetRate(a0, RateOr1(rate), "remote")
             target == at + (nowMs - ts)
             a2 == IF Abs(a1.player.time - target) > DriftThreshold
                   THEN PlayerSeek(a1, target, "remote") ELSE a1
         IN Suppressed(PlayerPlay(a2, "remote"))

AppPlay(at, rate, ts) == AppStep(OnPlay(at, rate, ts))

\* socket.on('player:pause'): the page after the handler
OnPause(at) ==
    LET a0 == Begin("player:pause") IN
    IF a0.player.type = "none" THEN a0
    ELSE Suppressed(PlayerSeek(PlayerPause(a0, "remote"), at, "remote"))

AppPause(at) == AppStep(OnPause(at))

\* socket.on('player:seek')
AppSeek(to, ts) ==
    LET a0 == Begin("player:seek") IN
    IF a0.player.type = "none" THEN AppStep(a0)
    ELSE AppStep(Suppressed(PlayerSeek(a0, to + (nowMs - ts), "remote")))

\* socket.on('player:rate')
AppRate(rate) ==
    LET a0 == Begin("player:rate") IN
    IF a0.player.type = "none" THEN AppStep(a0)
    ELSE AppStep(Suppressed(PlayerSetRate(a0, RateOr1(rate), "remote")))

\* socket.on('sync:state'): the page after the handler
OnSyncState(status, at, rate, ts, source) ==
    LET a0 == Begin("sync:state") IN
    IF a0.isHost \/ a0.player.type = "none" THEN a0
    ELSE IF source.t = "object" /\ (a0.source.t # "object" \/ source # a0.source)
    THEN AppUpdateSource(a0, source,
                         [status |-> status, at |-> at, rate |-> rate, ts |-> ts], TRUE)
    ELSE IF status = "playing"
    THEN LET target == at + (nowMs - ts)
             a1 == IF Abs(a0.player.time - target) > SyncThreshold
                   THEN Suppressed(PlayerPlay(PlayerSeek(a0, target, "remote"), "remote"))
                   ELSE PlayerPlay(a0, "remote")
         IN PlayerSetRate(a1, RateOr1(rate), "remote")
    ELSE Suppressed(PlayerSeek(PlayerPause(a0, "remote"), at, "remote"))

AppSyncState(status, at, rate, ts, source) ==
    AppStep(OnSyncState(status, at, rate, ts, source))

\* a load resolves: the .then callback of loadYouTube / loadHtml5Video sets
\* player and applies the playback it captured
AppLoaded ==
    \E l \in app.loads :
       AppStep(AppApplyPlayback([Begin("loaded") EXCEPT
                                    !.player = LoadedPlayer(l.source.type),
                                    !.loads = @ \ {l}],
                                l.playback))

\* a setTimeout(() => { _suppress = false; }, 0) of suppress fires
AppTimer ==
    /\ app.timers > 0
    /\ AppStep([Begin("timer") EXCEPT !.suppress = FALSE, !.timers = @ - 1])

\* the length of the video: getDuration()
Duration == 4 * TickMs

\* socket.emit(ev, data)
Send(ev, data) == Emit("server", NoRoom, ev, data)

\* the command a listener of the player emits for an event, when it emits:
\* the play, pause, ratechange and seeked listeners of the video element,
\* the PLAYING, PAUSED and ENDED branches of onStateChange
Intent(a, kind) ==
    CASE kind = "play" ->
           Send("player:play", [at |-> a.player.time, rate |-> a.player.rate, ts |-> nowMs])
      [] kind = "pause" -> Send("player:pause", [at |-> a.player.time, ts |-> nowMs])
      [] kind = "ratechange" -> Send("player:rate", [rate |-> a.player.rate, ts |-> nowMs])
      [] kind = "seeked" -> Send("player:seek", [to |-> a.player.time, ts |-> nowMs])
      [] kind = "ended" -> Send("player:pause", [at |-> Duration, ts |-> nowMs])

\* if (_suppress || !me.isHost) return; socket.emit(...)
Heard(a, e) ==
    IF a.suppress \/ ~a.isHost THEN a
    ELSE [a EXCEPT !.did.sent = << Intent(a, e.kind) >>]

\* the player delivers the oldest of its queued events to its listener
AppPlayerEvent ==
    /\ app.events # <<>>
    /\ LET e == Head(app.events)
           a0 == [Begin("event") EXCEPT !.events = Tail(@), !.did.kind = e.kind,
                                        !.did.by = e.by]
       IN AppStep(Heard(a0, e))

\* the user works the player's own controls (v.controls = true, controls: 1),
\* or the embedded video reaches its end
AppUser(kind, t, r) ==
    /\ app.player.type # "none"
    /\ LET a0 == Begin("user") IN
       CASE kind = "play" -> AppStep(PlayerPlay(a0, "user"))
         [] kind = "pause" -> AppStep(PlayerPause(a0, "user"))
         [] kind = "seek" -> AppStep(PlayerSeek(a0, t, "user"))
         [] kind = "rate" -> AppStep(PlayerSetRate(a0, r, "user"))
         [] kind = "end" ->
              /\ app.player.type = "youtube" /\ app.player.status = "playing"
              /\ AppStep(Queue([a0 EXCEPT !.player.status = "paused",
                                          !.player.time = Duration], "ended", "user"))

\* a control that refuses with toast(...)
Notice(a) == [a EXCEPT !.did.kind = "notice"]

\* the Play and Pause buttons and the seek and speed controls of the page
AppControl(control, t, r) ==
    LET a0 == Begin("control") IN
    IF a0.player.type = "none" THEN AppStep(a0)
    ELSE IF ~a0.isHost THEN AppStep(Notice(a0))
    ELSE AppStep([a0 EXCEPT !.did.sent =
            CASE control = "play" ->
                   << Send("player:play", [at |-> a0.player.time, rate |-> r, ts |-> nowMs]) >>
              [] control = "pause" ->
                   << Send("player:pause", [at |-> a0.player.time, ts |-> nowMs]) >>
              [] control = "seek" -> << Send("player:seek", [to |-> t, ts |-> nowMs]) >>
              [] control = "rate" -> << Send("player:rate", [rate |-> r, ts |-> nowMs]) >>])

\* the Set Source button: a YouTube link, a direct video URL, or neither
AppClickSetSource(p) ==
    LET a0 == Begin("control") IN
    IF ~a0.isHost THEN AppStep(Notice(a0))
    ELSE IF ~p.present THEN AppStep(a0)
    ELSE IF p.type \in {"youtube", "video"}
    THEN AppStep([a0 EXCEPT !.did.sent = << Send("player:set-source", p) >>])
    ELSE AppStep(Notice(a0))

\* a file is chosen: the upload starts, for the host
AppUploadStart ==
    /\ ~app.uploading
    /\ LET a0 == Begin("upload") IN
       IF ~a0.isHost THEN AppStep(Notice(a0))
       ELSE AppStep([a0 EXCEPT !.uploading = TRUE])

\* the fetch of the upload resolves: with a url the source is set
AppUploadDone(ok) ==
    /\ app.uploading
    /\ LET a0 == [Begin("uploaded") EXCEPT !.uploading = FALSE] IN
       IF ok THEN AppStep([a0 EXCEPT !.did.sent =
                     << Send("player:set-source",
                             [present |-> TRUE, type |-> "video", url |-> "mp4",
                              videoId |-> ""]) >>])
       ELSE AppStep(Notice(a0))

\* the clock of the page advances, and a playing player with it
AppTick(maxTicks) ==
    /\ mode = "socket"
    /\ now < Epoch + maxTicks * TickMs
    /\ now' = now + TickMs
    /\ app' = [app EXCEPT !.did = Idle("tick"),
                          !.player.time = IF app.player.status = "playing"
                                          THEN @ + (TickMs * app.player.rate) \div RateOne
                                          ELSE @]
    /\ UNCHANGED <<mode, scope, rooms, joinedRoomId, connected, last, browser>>

(* Scopes: the requests the clients make in a behaviour.  Every scope has   *)
(* every handler of every server; the number of rooms is bounded by the    *)
(* room codes and the random draws of the scope.                           *)
(*   "playback"  two clients, one room id, every payload value of the      *)
(*               playback commands;                                        *)
(*   "rooms"     two clients, three room ids (one typed with a blank       *)
(*               before it), stored chat messages, one payload value for   *)
(*               each playback command;                                    *)
(*   "clock"     one client in one room, positions below zero, the clock   *)
(*               advancing for seconds between a command and a sync        *)
(*               request;                                                  *)
(*   "poll"      one client and the browser of another in one room, the    *)
(*               browser polling while the first sets a source, plays and  *)
(*               pauses;                                                   *)
(*   "log"       a browser polling a room that holds nineteen messages and *)
(*               receives two more;                                        *)
(*   "chat"      one client posting to one room until the stored messages  *)
(*               are cut;                                                  *)
(*   "text"      two clients in one room, chat texts that are empty, short *)
(*               and longer than the server keeps;                         *)
(*   "handover"  three clients and two room ids, no playback commands.     *)
(* In the scopes of the page ("apply", "feedback", below) no client is     *)
(* connected.                                                              *)

PlaybackScope ==
    [browsers |-> {}, clients |-> {"c1", "c2"}, codes |-> {<<>>, makeRoomId(0)}, names |-> {""},
     draws |-> {0}, params |-> {makeRoomId(0)},
     sources |-> SourcePayloads, positions |-> PositionValues, rates |-> RateValues,
     ts |-> TsKinds, texts |-> {<<"h", "i">>}, actions |-> HttpActions,
     maxTicks |-> 0, maxMessages |-> 0]

RoomsScope ==
    [browsers |-> {}, clients |-> {"c1", "c2"}, codes |-> {<<>>, <<" ">> \o makeRoomId(0)}, names |-> {""},
     draws |-> RandomDraws, params |-> {makeRoomId(0)},
     sources |-> {[present |-> TRUE, type |-> "youtube", url |-> "yt", videoId |-> "vid"]},
     positions |-> {Undefined}, rates |-> {Undefined},
     ts |-> {"none"}, texts |-> {<<"h", "i">>}, actions |-> {"play"},
     maxTicks |-> 0, maxMessages |-> MaxMessages]

ClockScope ==
    [browsers |-> {}, clients |-> {"c1"}, codes |-> {<<>>}, names |-> {""},
     draws |-> {0}, params |-> {makeRoomId(0)},
     sources |-> {[present |-> TRUE, type |-> "youtube", url |-> "yt", videoId |-> "vid"]},
     positions |-> {Undefined, Num(0 - TickMs), Num(2 * TickMs)},
     rates |-> {Undefined, Num(2 * RateOne)},
     ts |-> {"none"}, texts |-> {<<"h", "i">>}, actions |-> {"play", "seek"},
     maxTicks |-> MaxDelayTicks, maxMessages |-> 0]

PollScope ==
    [browsers |-> {"c2"}, clients |-> {"c1"}, codes |-> {<<>>}, names |-> {""},
     draws |-> {0}, params |-> {makeRoomId(0)},
     sources |-> {[present |-> TRUE, type |-> "youtube", url |-> "yt", videoId |-> "vid"]},
     positions |-> {Num(2 * TickMs)}, rates |-> {Undefined},
     ts |-> {"none"}, texts |-> {<<"h", "i">>}, actions |-> {"play", "pause"},
     maxTicks |-> 0, maxMessages |-> 0]

\* one room and one user who posts until the message list has been cut, with
\* one step of the clock to tell the messages apart
ChatScope ==
    [browsers |-> {}, clients |-> {"c1"}, codes |-> {makeRoomId(0)}, names |-> {""},
     draws |-> {0}, params |-> {makeRoomId(0)},
     sources |-> {}, positions |-> {}, rates |-> {},
     ts |-> {}, texts |-> {<<"h", "i">>}, actions |-> {},
     maxTicks |-> 1, maxMessages |-> MessageCap + 1]

\* a host and a guest in one room who post an empty text, a short one and one
\* longer than the limit
TextScope ==
    [browsers |-> {}, clients |-> {"c1", "c2"}, codes |-> {<<>>}, names |-> {""},
     draws |-> {0}, params |-> {makeRoomId(0)},
     sources |-> {}, positions |-> {}, rates |-> {},
     ts |-> {}, texts |-> {<<>>, <<"h", "i">>, LongText}, actions |-> {},
     maxTicks |-> 0, maxMessages |-> MaxMessages]

\* a browser that polls a room of nineteen messages while a user posts two
\* more, one message more than a reply holds, with one step of the clock to
\* tell the messages apart
LogScope ==
    [browsers |-> {"c2"}, clients |-> {"c1"}, codes |-> {makeRoomId(0)}, names |-> {""},
     draws |-> {0}, params |-> {makeRoomId(0)},
     sources |-> {}, positions |-> {}, rates |-> {},
     ts |-> {}, texts |-> {<<"h", "i">>}, actions |-> {},
     maxTicks |-> 1, maxMessages |-> MessagesShown + 1]

\* three sockets that join, leave and disconnect, in a room they name and in
\* one the server names
HandoverScope ==
    [browsers |-> {}, clients |-> {"c1", "c2", "c3"}, codes |-> {<<>>, makeRoomId(0)},
     names |-> {""}, draws |-> {Len(alphabet) - 1}, params |-> {},
     sources |-> {}, positions |-> {}, rates |-> {},
     ts |-> {}, texts |-> {}, actions |-> {},
     maxTicks |-> 0, maxMessages |-> 0]

\* no request reaches the server: the scopes of the front end
IdleScope ==
    [browsers |-> {}, clients |-> {}, codes |-> {}, names |-> {},
     draws |-> {}, params |-> {},
     sources |-> {}, positions |-> {}, rates |-> {},
     ts |-> {}, texts |-> {}, actions |-> {},
     maxTicks |-> 0, maxMessages |-> 0]

Scope == CASE scope = "playback" -> PlaybackScope
           [] scope = "rooms" -> RoomsScope
           [] scope = "clock" -> ClockScope
           [] scope = "poll" -> PollScope
           [] scope = "chat" -> ChatScope
           [] scope = "log" -> LogScope
           [] scope = "text" -> TextScope
           [] scope = "handover" -> HandoverScope
           [] OTHER -> IdleScope

VideoSource == Source("video", "mp4", Null)
TubeSource == Source("youtube", "yt", "vid")

\* what reaches the page in a behaviour: the events of the server and what
\* the user does.
\*   "apply"     a guest's page with an embedded player: snapshots that are
\*               playing or paused, 0.4 s from the position the player
\*               loads at, at two rates, stamped a second ago;
\*   "feedback"  the page of a participant who is or is not the host, with
\*               a video element: the room's events, the user at the
\*               player's controls and at the page's, an upload;
\*   "ended"     the host's page with an embedded player, the clock
\*               advancing, the video reaching its end.
NoPage ==
    [hosts |-> {}, sources |-> {}, statuses |-> {}, positions |-> {}, rates |-> {},
     ages |-> {}, kinds |-> {}, controls |-> {}, payloads |-> {}, uploads |-> {},
     maxTicks |-> 0]

ApplyPage ==
    [hosts |-> {FALSE}, sources |-> {TubeSource}, statuses |-> {"playing", "paused"},
     positions |-> {400}, rates |-> {RateOne, 2 * RateOne},
     ages |-> {TickMs}, kinds |-> {}, controls |-> {}, payloads |-> {}, uploads |-> {},
     maxTicks |-> 0]

FeedbackPage ==
    [hosts |-> {FALSE, TRUE}, sources |-> {VideoSource},
     statuses |-> {"playing"},
     positions |-> {0}, rates |-> {RateOne},
     ages |-> {0}, kinds |-> {"play", "pause", "seek", "rate"},
     controls |-> {"play", "pause", "seek", "rate"},
     payloads |-> SourcePayloads, uploads |-> {TRUE, FALSE},
     maxTicks |-> 0]

EndPage ==
    [hosts |-> {TRUE}, sources |-> {TubeSource}, statuses |-> {"playing"},
     positions |-> {0}, rates |-> {RateOne},
     ages |-> {0}, kinds |-> {"end"}, controls |-> {}, payloads |-> {}, uploads |-> {},
     maxTicks |-> 1]

Page == CASE scope = "apply" -> ApplyPage
          [] scope = "feedback" -> FeedbackPage
          [] scope = "ended" -> EndPage
          [] OTHER -> NoPage

\* the snapshots the server sends with room:state and player:set-source
PagePlaybacks ==
    { [status |-> st, at |-> at, rate |-> r, ts |-> now - age] :
         st \in Page.statuses, at \in Page.positions, r \in Page.rates, age \in Page.ages }

Next ==
    \/ Tick(Scope.maxTicks)
    \/ \E c \in Scope.clients, roomId \in Scope.codes, name \in Scope.names, d \in Scope.draws :
          Join(c, roomId, name, d)
    \/ \E c \in Scope.clients : Leave(c)
    \/ \E c \in Scope.clients : VercelLeave(c)
    \/ \E c \in Scope.clients : BecomeHost(c)
    \/ \E c \in Scope.clients : Disconnect(c)
    \/ \E c \in Scope.clients, p \in Scope.sources : SetSource(c, p)
    \/ \E c \in Scope.clients, p \in Scope.sources : VercelSetSource(c, p)
    \/ \E c \in Scope.clients, at \in Scope.positions, rate \in Scope.rates, k \in Scope.ts :
          Play(c, at, rate, TsOf(k))
    \/ \E c \in Scope.clients, at \in Scope.positions, k \in Scope.ts : Pause(c, at, TsOf(k))
    \/ \E c \in Scope.clients, to \in Scope.positions, k \in Scope.ts : Seek(c, to, TsOf(k))
    \/ \E c \in Scope.clients, rate \in Scope.rates, k \in Scope.ts : Rate(c, rate, TsOf(k))
    \/ \E c \in Scope.clients : SyncRequest(c)
    \/ \E c \in Scope.clients, text \in Scope.texts, name \in Scope.names : Chat(c, text, name)
    \/ \E u \in Scope.clients, roomId \in Scope.codes, name \in Scope.names, d \in Scope.draws :
          HttpJoin(u, roomId, name, d)
    \/ \E u \in Scope.clients, roomId \in Scope.params : HttpGetRoom(u, roomId)
    \/ \E u \in Scope.clients, roomId \in Scope.params, p \in Scope.sources :
          HttpSetSource(u, roomId, p)
    \/ \E u \in Scope.clients, roomId \in Scope.params, action \in Scope.actions,
          pos \in Scope.positions, rate \in Scope.rates :
          HttpPlayback(u, roomId, action, pos, rate)
    \/ \E u \in Scope.clients, roomId \in Scope.params, text \in Scope.texts, name \in Scope.names :
          HttpChat(u, roomId, text, name, Scope.maxMessages)
    \/ \E u \in Scope.browsers, roomId \in Scope.codes, name \in Scope.names,
          d \in Scope.draws : BrowserJoin(u, roomId, name, d)
    \/ \E u \in Scope.browsers : BrowserPoll(u)
    \/ \E u \in Scope.browsers : PlayerLoaded(u)
    \/ \E h \in Page.hosts, source \in Page.sources \cup {NullSource},
          pb \in PagePlaybacks : AppRoomState(h, source, pb)
    \/ \E source \in Page.sources, pb \in PagePlaybacks : AppSetSource(source, pb)
    \/ \E at \in Page.positions, r \in Page.rates, age \in Page.ages :
          AppPlay(at, r, now - age)
    \/ \E at \in Page.positions : AppPause(at)
    \/ \E to \in Page.positions, age \in Page.ages : AppSeek(to, now - age)
    \/ \E r \in Page.rates : AppRate(r)
    \/ \E pb \in PagePlaybacks, source \in Page.sources :
          AppSyncState(pb.status, pb.at, pb.rate, pb.ts, source)
    \/ AppLoaded
    \/ AppTimer
    \/ AppPlayerEvent
    \/ \E kind \in Page.kinds, t \in Page.positions, r \in Page.rates : AppUser(kind, t, r)
    \/ \E control \in Page.controls, t \in Page.positions, r \in Page.rates :
          AppControl(control, t, r)
    \/ \E p \in Page.payloads : AppClickSetSource(p)
    \/ \E ok \in Page.uploads : AppUploadStart
    \/ \E ok \in Page.uploads : AppUploadDone(ok)
    \/ AppTick(Page.maxTicks)

Spec == Init /\ [][Next]_vars

----------------------------------------------------------------------------
(* Host-only commands.                                                     *)

HostOps == {"set-source", "play", "pause", "seek", "rate"}
PlaybackOps == {"play", "pause", "seek", "rate"}

\* the last request was a host-only command
HostCommand(l) == l.op \in HostOps

\* the reply reached the caller: an HTTP error status, or an event emitted to
\* the caller's own socket
RepliedUnauthorized(l) ==
    \/ l.status = 403
    \/ \E i \in DOMAIN l.emits : l.emits[i].to = "socket"

\* C1: a setSource, play, pause, seek or setRate request whose caller is not
\* the room's current host leaves the playback and the source of the room (of
\* every room) exactly as they were, on the Socket.IO servers and on the HTTP
\* server.
NonHostCommandChangesNothing ==
    [][ (HostCommand(last') /\ ~last'.wasHost) =>
           /\ DOMAIN rooms' = DOMAIN rooms
           /\ \A r \in DOMAIN rooms :
                 /\ rooms'[r].playback = rooms[r].playback
                 /\ rooms'[r].source = rooms[r].source ]_vars

\* a participant who is not the host has just sent a host-only command to a
\* Socket.IO server, in a room whose host has set a source and started playback
NonHostCommandSent ==
    /\ mode \in PushModes
    /\ HostCommand(last) /\ last.wasMember /\ ~last.wasHost
    /\ rooms[last.rid].source.t = "object"
    /\ rooms[last.rid].playback.status = "playing"

\* C2: every setSource, play, pause, seek or setRate request of a participant
\* who is not the host is answered with an Unauthorized outcome delivered to
\* the caller, in push mode as in pull mode.
NonHostCommandIsAnswered ==
    (HostCommand(last) /\ last.wasMember /\ ~last.wasHost) => RepliedUnauthorized(last)

\* C3: in every room, hostId is null or a key of the room's participants.
HostIsParticipant ==
    \A r \in DOMAIN rooms :
        rooms[r].hostId = Null \/ rooms[r].hostId \in ParticipantIds(rooms[r])

\* the host of a room has just left it, or disconnected, and the room has a
\* host again
HostHandedOver ==
    /\ last.op \in {"leave", "disconnect"} /\ last.wasHost
    /\ rooms[last.rid].hostId # Null

\* the socket c has just gone: it left the room r, or it disconnected
Departed(c, r) ==
    \/ last'.op = "leave" /\ last'.rid = r /\ joinedRoomId[c] = r /\ joinedRoomId'[c] = NoRoom
    \/ last'.op = "disconnect" /\ connected[c] /\ ~connected'[c]

\* C4: when the host of a room leaves or disconnects, hostId afterwards is one
\* of the remaining participants if any remains (never null, never the id that
\* departed), and null if none remains.
HostDepartureReassigns ==
    [][ \A c \in Clients, r \in DOMAIN rooms :
           (Departed(c, r) /\ rooms[r].hostId = c) =>
               LET remaining == ParticipantIds(rooms'[r]) \ {c} IN
               IF remaining # {} THEN rooms'[r].hostId \in remaining
               ELSE rooms'[r].hostId = Null ]_vars

\* C5: while P is the host of a room, hostId changes only by P's own leave or
\* disconnect: no join, re-join, leave or disconnect of another participant,
\* role:become-host, chat or playback command moves it.
HostStable ==
    [][ \A r \in DOMAIN rooms :
           (rooms[r].hostId # Null /\ rooms'[r].hostId # rooms[r].hostId) =>
               /\ last'.op \in {"leave", "disconnect"}
               /\ last'.rid = r
               /\ last'.wasHost ]_vars

\* a participant who is not the host has just disconnected from a room that
\* has a host
NonHostDeparted ==
    /\ last.op = "disconnect" /\ last.wasMember /\ ~last.wasHost
    /\ rooms[last.rid].hostId # Null

----------------------------------------------------------------------------
(* Joining.                                                                *)

\* the keys of the participants map, in insertion order
Keys(room) == [i \in DOMAIN room.participants |-> room.participants[i].id]

\* the step is a join request of c, on a Socket.IO server or the HTTP server
JoinStep(c) ==
    \E roomId \in Scope.codes, name \in Scope.names, d \in Scope.draws :
        Join(c, roomId, name, d) \/ HttpJoin(c, roomId, name, d)

\* C6: a join makes the caller a participant; the caller becomes the host when
\* the room had no host (a new room, or one everybody left) and otherwise
\* hostId is unchanged; a caller whose id was not in the room adds one entry.
JoinAssignsHostIfNone ==
    [][ last'.op = "join" =>
          \A c \in Scope.clients :
            JoinStep(c) =>
              LET r == last'.rid
                  before == IF r \in DOMAIN rooms THEN rooms[r] ELSE NewRoom(r, now)
              IN /\ r \in DOMAIN rooms'
                 /\ c \in ParticipantIds(rooms'[r])
                 /\ rooms'[r].hostId = IF before.hostId = Null THEN c ELSE before.hostId
                 /\ c \notin ParticipantIds(before) =>
                       /\ Len(rooms'[r].participants) = Len(before.participants) + 1
                       /\ ParticipantIds(rooms'[r]) = ParticipantIds(before) \cup {c} ]_vars

\* a second participant has just joined a room whose host is the first
SecondJoined ==
    /\ last.op = "join" /\ ~last.wasMember
    /\ Len(rooms[last.rid].participants) = 2
    /\ rooms[last.rid].hostId = rooms[last.rid].participants[1].id

\* C7: a join with an id the room already holds leaves the keys of the
\* participants map, hostId, source and playback unchanged.
RejoinIdempotent ==
    [][ (last'.op = "join" /\ last'.wasMember) =>
          LET r == last'.rid IN
          /\ Keys(rooms'[r]) = Keys(rooms[r])
          /\ rooms'[r].hostId = rooms[r].hostId
          /\ rooms'[r].source = rooms[r].source
          /\ rooms'[r].playback = rooms[r].playback ]_vars

\* a participant who is not the host has just joined again the room of two it
\* is in, where a source is set and playing
Rejoined ==
    /\ last.op = "join" /\ last.wasMember /\ ~last.wasHost
    /\ Len(rooms[last.rid].participants) = 2
    /\ rooms[last.rid].source.t = "object"
    /\ rooms[last.rid].playback.status = "playing"

----------------------------------------------------------------------------
(* Playback.                                                               *)

\* the step is a set-source request of c with payload p
SetSourceStep(c, p) ==
    SetSource(c, p) \/ VercelSetSource(c, p) \/ HttpSetSource(c, last'.rid, p)

\* the handler went through: it answered 200 or told the room
SetSourceAccepted(l) ==
    /\ l.op = "set-source"
    /\ \/ l.status = 200
       \/ \E i \in DOMAIN l.emits :
             l.emits[i].to = "room" /\ l.emits[i].ev = "player:set-source"

\* C8: a successful setSource of the host sets the source to the one given and
\* the playback to paused, at 0, rate 1, ts the time of the call, whatever the
\* playback was.
SetSourceResets ==
    [][ SetSourceAccepted(last') =>
          \A c \in Scope.clients, p \in Scope.sources :
            SetSourceStep(c, p) =>
              LET room == rooms'[last'.rid] IN
              /\ p.present =>
                    /\ room.source.t = "object"
                    /\ room.source.type = p.type
                    /\ room.source.url = p.url
                    /\ p.videoId # "" => room.source.videoId = p.videoId
              /\ room.playback.status = "paused"
              /\ room.playback.at = Num(0)
              /\ room.playback.rate = Num(RateOne)
              /\ room.playback.ts = Num(now') ]_vars

\* the host has just set a source, after the clock advanced
SourceSet ==
    /\ SetSourceAccepted(last) /\ last.wasHost
    /\ now > Epoch
    /\ rooms[last.rid].source.t = "object"
    /\ rooms[last.rid].playback = [status |-> "paused", at |-> Num(0),
                                   rate |-> Num(RateOne), ts |-> Num(now)]

\* the last request was a playback command of the room's host
PlaybackAccepted(l) == l.op \in PlaybackOps /\ l.wasHost

\* C9: an accepted pause keeps the rate; an accepted seek keeps the status and
\* the rate; an accepted setRate keeps the status and the position; no
\* playback command changes the source, hostId or the participants.
PlaybackFrame ==
    [][ PlaybackAccepted(last') =>
          LET r == last'.rid
              old == rooms[r].playback
              new == rooms'[r].playback
          IN /\ last'.op = "pause" => new.rate = old.rate
             /\ last'.op = "seek" => new.status = old.status /\ new.rate = old.rate
             /\ last'.op = "rate" => new.status = old.status /\ new.at = old.at
             /\ DOMAIN rooms' = DOMAIN rooms
             /\ \A q \in DOMAIN rooms :
                   /\ rooms'[q].source = rooms[q].source
                   /\ rooms'[q].hostId = rooms[q].hostId
                   /\ rooms'[q].participants = rooms[q].participants ]_vars

\* the host has just sought in a room playing at twice the speed
SoughtWhilePlaying ==
    /\ last.op = "seek" /\ last.wasHost
    /\ rooms[last.rid].playback.status = "playing"
    /\ rooms[last.rid].playback.rate = Num(2 * RateOne)
    /\ rooms[last.rid].playback.at = Num(2 * TickMs)

\* C10: after an accepted play, pause, seek or setRate, playback.ts is the
\* server's clock reading of that moment, whatever ts the payload holds.
PlaybackStampedByServer ==
    PlaybackAccepted(last) => rooms[last.rid].playback.ts = Num(now)

----------------------------------------------------------------------------
(* The playback clock.                                                     *)

\* C11: in every room, playback is well formed: status is playing or paused,
\* at is a number >= 0 and rate is a number > 0, whatever the host has sent.
PlaybackWellFormed ==
    \A r \in DOMAIN rooms :
        LET pb == rooms[r].playback IN
        /\ pb.status \in {"playing", "paused"}
        /\ pb.at.t = "num" /\ pb.at.v >= 0
        /\ pb.rate.t = "num" /\ pb.rate.v > 0

\* clock readings before, at and after the ts of every snapshot of the model
ClockReadings == {Epoch - TickMs + k * SkewMs : k \in 0..(2 * (MaxDelayTicks + 2))}

\* the sync:state reply of the last request, which was a sync:request that
\* was answered
SyncAnswered == last.op = "sync-request" /\ last.emits # <<>>
SyncReply == last.emits[1].data

\* C12: for a snapshot whose status is paused, effectiveTime is the snapshot's
\* at, for every reading of the clock: before, at or after the snapshot's ts.
PausedTimeIsAt ==
    /\ \A r \in DOMAIN rooms, t \in ClockReadings :
          rooms[r].playback.status = "paused" =>
              effectiveTimeAt(rooms[r].playback, t) = rooms[r].playback.at
    /\ (SyncAnswered /\ rooms[last.rid].playback.status = "paused") =>
          SyncReply.at = rooms[last.rid].playback.at

\* a sync:request has just been answered in a room paused at a position that
\* is not zero, after the clock advanced
PausedSynced ==
    /\ SyncAnswered
    /\ rooms[last.rid].playback.status = "paused"
    /\ rooms[last.rid].playback.at = Num(2 * TickMs)
    /\ rooms[last.rid].playback.ts.v < now
    /\ SyncReply.at = Num(2 * TickMs)

\* whole seconds between a command and a reading of the clock
DelaySeconds == 0..MaxDelayTicks

\* C13: for a snapshot that is playing at a rate r > 0, effectiveTime read D
\* seconds after the snapshot's ts is at + D * r (in milliseconds of video:
\* D seconds at r thousandths); a play at 0 with rate 1 followed by a
\* sync:request 5000 ms later is answered with at = 5 s.
PlayingTimeAdvances ==
    /\ \A r \in DOMAIN rooms, d \in DelaySeconds :
          LET pb == rooms[r].playback IN
          (/\ pb.status = "playing"
           /\ pb.at.t = "num" /\ pb.ts.t = "num"
           /\ pb.rate.t = "num" /\ pb.rate.v > 0) =>
              effectiveTimeAt(pb, pb.ts.v + d * TickMs) = Num(pb.at.v + d * pb.rate.v)
    /\ \A d \in DelaySeconds :
          LET pb == rooms[last.rid].playback IN
          (/\ SyncAnswered
           /\ pb.status = "playing" /\ pb.rate.v > 0
           /\ now = pb.ts.v + d * TickMs) =>
              SyncReply.at = Num(pb.at.v + d * pb.rate.v)

\* a sync:request has just been answered five seconds after a play at 0 with
\* rate 1: the reply holds at = 5 s
SyncedAfterFiveSeconds ==
    /\ SyncAnswered
    /\ rooms[last.rid].playback =
          [status |-> "playing", at |-> Num(0), rate |-> Num(RateOne),
           ts |-> Num(now - 5 * TickMs)]
    /\ SyncReply.at = Num(5 * TickMs)

\* C14: a sync:request of a joined client is answered, to the caller alone,
\* with the room's status, rate, source and hostId, at = effectiveTime of the
\* stored playback and ts = the server's clock; it changes nothing in any room.
SyncRequestAnswers ==
    [][ last'.op = "sync-request" =>
          /\ rooms' = rooms
          /\ last'.rid \in DOMAIN rooms =>
                LET room == rooms[last'.rid]
                    reply == last'.emits[1]
                IN /\ Len(last'.emits) = 1
                   /\ reply.to = "socket" /\ reply.ev = "sync:state"
                   /\ reply.data.status = room.playback.status
                   /\ reply.data.rate = room.playback.rate
                   /\ reply.data.source = room.source
                   /\ reply.data.hostId = room.hostId
                   /\ reply.data.at = effectiveTimeAt(room.playback, now')
                   /\ reply.data.ts = Num(now') ]_vars

\* a sync:request has just been answered in a room that plays a source, with
\* a position that is not the stored one
SyncedWhilePlaying ==
    /\ SyncAnswered
    /\ rooms[last.rid].playback.status = "playing"
    /\ rooms[last.rid].source.t = "object"
    /\ SyncReply.hostId # Null
    /\ SyncReply.at # rooms[last.rid].playback.at
    /\ SyncReply.ts # rooms[last.rid].playback.ts

\* C15: the position effectiveTime computes, and so the at of every
\* sync:state reply, is never negative, also when the host's command held a
\* ts ahead of the server's clock.  Stated for the snapshots whose stored at
\* and rate are well formed.
SyncPositionNotNegative ==
    /\ \A r \in DOMAIN rooms :
          LET pb == rooms[r].playback IN
          (mode \in PushModes /\ pb.at.v >= 0 /\ pb.rate.v > 0) =>
              effectiveTime(pb).v >= 0
    /\ (SyncAnswered /\ rooms[last.rid].playback.at.v >= 0
                     /\ rooms[last.rid].playback.rate.v > 0) =>
          SyncReply.at.v >= 0

----------------------------------------------------------------------------
(* The polling client.                                                     *)

\* the browser has handled a reply that holds the room's present source and
\* playback (a further poll would bring it nothing new), the room has a source,
\* and no player is being loaded
BrowserSettled ==
    /\ browser.roomId \in DOMAIN rooms
    /\ rooms[browser.roomId].source.t = "object"
    /\ browser.source = rooms[browser.roomId].source
    /\ browser.playback = rooms[browser.roomId].playback
    /\ browser.loads = {}

\* C16: once the polling client has handled a poll reply issued after the
\* host's last command and its player has loaded, its player shows the room's
\* source and plays or is paused as the room's playback says, also when
\* set-source and a play were issued while the player was loading.
PollingConverges ==
    BrowserSettled =>
        /\ browser.player.video = rooms[browser.roomId].source
        /\ browser.player.status = rooms[browser.roomId].playback.status

----------------------------------------------------------------------------
(* Broadcasts.                                                             *)

\* the events the handler of the step sent to the sockets of room r
SentToRoom(l, r) == {l.emits[i] : i \in {j \in DOMAIN l.emits :
                                          l.emits[j].to = "room" /\ l.emits[j].room = r}}

\* the event e tells the playback pb: a room:state or player:set-source event
\* holds it whole, a player:* event holds the fields its command sets
TellsPlayback(e, pb) ==
    \/ e.ev \in {"room:state", "player:set-source"} /\ e.data.playback = pb
    \/ e.ev = "player:play" /\ pb.status = "playing"
         /\ e.data.at = pb.at /\ e.data.rate = pb.rate /\ e.data.ts = pb.ts
    \/ e.ev = "player:pause" /\ pb.status = "paused"
         /\ e.data.at = pb.at /\ e.data.ts = pb.ts
    \/ e.ev = "player:seek" /\ e.data.to = pb.at /\ e.data.ts = pb.ts
    \/ e.ev = "player:rate" /\ e.data.rate = pb.rate /\ e.data.ts = pb.ts

\* C17: on the Socket.IO servers, a step that creates a room or changes the
\* hostId, the participants, the source or the playback of a room sends, in
\* the same handler, an event to that room that holds the new value.
MutationIsBroadcast ==
    [][ (mode \in PushModes) =>
          \A r \in DOMAIN rooms' :
            LET new == rooms'[r]
                old == IF r \in DOMAIN rooms THEN rooms[r] ELSE NoRoomRec
                sent == SentToRoom(last', r)
            IN /\ new.participants # old.participants =>
                    \E e \in sent : /\ e.ev = "room:participants"
                                    /\ e.data = listParticipants(new)
               /\ (r \notin DOMAIN rooms \/ new.hostId # old.hostId) =>
                    \E e \in sent : e.ev = "room:state" /\ e.data.hostId = new.hostId
               /\ new.source # old.source =>
                    \E e \in sent : /\ e.ev \in {"room:state", "player:set-source"}
                                    /\ e.data.source = new.source
               /\ (r \notin DOMAIN rooms \/ new.playback # old.playback) =>
                    \E e \in sent : TellsPlayback(e, new.playback) ]_vars

\* the host of a room of two has just disconnected: the room was told its
\* participants and its new host
HandoverBroadcast ==
    /\ last.op = "disconnect" /\ last.wasHost
    /\ rooms[last.rid].hostId # Null
    /\ \E e \in SentToRoom(last, last.rid) :
          e.ev = "room:state" /\ e.data.hostId = rooms[last.rid].hostId
    /\ \E e \in SentToRoom(last, last.rid) :
          e.ev = "room:participants" /\ Len(e.data) = 1

\* the source and the playback that the event e shows of a room are those the
\* room holds
ShowsRoom(e, room) ==
    /\ e.ev \in {"room:welcome", "json"} =>
          e.data.room.source = room.source /\ e.data.room.playback = room.playback
    /\ e.ev \in {"room:state", "player:set-source"} =>
          e.data.source = room.source /\ e.data.playback = room.playback
    /\ e.ev = "sync:state" =>
          /\ e.data.source = room.source
          /\ e.data.status = room.playback.status
          /\ e.data.rate = room.playback.rate

\* the events of the step that show a room: the replies to the caller and the
\* events sent to the room
ShowingEvents(l) ==
    {l.emits[i] : i \in {j \in DOMAIN l.emits :
        l.emits[j].ev \in {"room:welcome", "json", "room:state", "player:set-source",
                           "sync:state"}}}

\* C18: no read of a room (the reply of GET room state, the join reply, the
\* room:state and player:set-source events, the sync:state reply) shows a
\* mutation half applied: what it shows is what the room holds after the step,
\* and a step that changes the source leaves the playback reset with it.
ReadsAreWhole ==
    [][ /\ \A e \in ShowingEvents(last') :
              last'.rid \in DOMAIN rooms' /\ ShowsRoom(e, rooms'[last'.rid])
        /\ \A r \in DOMAIN rooms :
              rooms'[r].source # rooms[r].source =>
                  rooms'[r].playback = [status |-> "paused", at |-> Num(0),
                                        rate |-> Num(RateOne), ts |-> Num(now')] ]_vars

\* the room state has just been read from the HTTP server, after the host set
\* a source later than the room was created
ReadAfterSourceSet ==
    /\ last.op = "get" /\ last.status = 200
    /\ last.emits[1].data.room.source.t = "object"
    /\ last.emits[1].data.room.playback.status = "paused"
    /\ last.emits[1].data.room.playback.ts = Num(now)
    /\ now > Epoch

-----------------------------------------------------------------------------
(* Disconnect and leave.                                                   *)

\* what a room:leave sent by socket c does to its room, and what it
\* broadcasts: the handler of server.js, or nothing where no listener is
\* registered
LeaveOutcome(c) ==
    IF mode = "socket" THEN AfterLeave(c)
    ELSE [room |-> rooms[joinedRoomId[c]], emits |-> <<>>]

\* C19: in both push servers, a disconnect of a joined socket removes the
\* participant, reassigns the host and broadcasts room:participants and
\* room:state exactly as an explicit leave by that socket would.
DisconnectIsLeave ==
    (mode \in PushModes) =>
        \A c \in Clients :
            connected[c] /\ HasJoinedRoom(c) =>
                AfterDisconnect(c) = LeaveOutcome(c)

-----------------------------------------------------------------------------
(* Unknown rooms over HTTP.                                                *)

\* the requests that name a room in their path
RoomRoutes == {"get", "set-source", "chat"} \cup HttpActions

\* C20: over HTTP a get, set-source, playback or chat request that names a
\* room the registry does not hold is answered 404 and changes no room; only
\* a join adds a room to the registry.
UnknownRoomNotFound ==
    [][ (mode = "http") =>
           /\ (last'.op \in RoomRoutes /\ last'.rid \notin DOMAIN rooms) =>
                  (last'.status = 404 /\ rooms' = rooms)
           /\ (DOMAIN rooms' # DOMAIN rooms) => last'.op = "join" ]_vars

\* a request for a room the registry does not hold has been answered 404
\* while the registry holds other rooms
UnknownRoomAsked ==
    /\ mode = "http"
    /\ last.op \in RoomRoutes
    /\ last.status = 404
    /\ last.rid \notin DOMAIN rooms
    /\ DOMAIN rooms # {}

-----------------------------------------------------------------------------
(* Malformed commands.                                                     *)

\* the socket c is the host of the room it has joined
IsHostOfJoined(c) == HasJoinedRoom(c) /\ rooms[joinedRoomId[c]].hostId = c

\* C21: on the Socket.IO servers a command of the host whose payload lacks a
\* required field (set-source without type or url, play or pause without at,
\* seek without to, rate without rate) is dropped: source and playback of
\* every room stay as they were and nothing is emitted.
MalformedCommandDropped ==
    [][ \A c \in Scope.clients :
          (/\ mode \in PushModes
           /\ IsHostOfJoined(c)
           /\ \/ \E p \in Scope.sources :
                    BadSourcePayload(p) /\ (SetSource(c, p) \/ VercelSetSource(c, p))
              \/ \E rate \in Scope.rates, k \in Scope.ts : Play(c, Undefined, rate, TsOf(k))
              \/ \E k \in Scope.ts : Pause(c, Undefined, TsOf(k))
              \/ \E k \in Scope.ts : Seek(c, Undefined, TsOf(k))
              \/ \E k \in Scope.ts : Rate(c, Undefined, TsOf(k)))
          => (rooms' = rooms /\ last'.emits = <<>>) ]_vars

\* the status of an HTTP reply that reports a client error
ClientError(status) == status \in 400..499

\* C22: on the HTTP server a request of the host that is malformed (a
\* playback request with an unknown action or without its at, to or rate, a
\* set-source request whose source is missing or lacks its type or url) is
\* answered with a 4xx status and leaves every room as it was.
MalformedRequestRejected ==
    [][ \A u \in Scope.clients, roomId \in Scope.params :
          (/\ mode = "http"
           /\ roomId \in DOMAIN rooms
           /\ rooms[roomId].hostId = u
           /\ \/ \E p \in Scope.sources : BadSourcePayload(p) /\ HttpSetSource(u, roomId, p)
              \/ \E action \in Scope.actions \ {"play", "pause", "seek", "rate"},
                    pos \in Scope.positions, rate \in Scope.rates :
                    HttpPlayback(u, roomId, action, pos, rate)
              \/ \E action \in {"play", "pause", "seek"}, rate \in Scope.rates :
                    HttpPlayback(u, roomId, action, Undefined, rate)
              \/ \E pos \in Scope.positions : HttpPlayback(u, roomId, "rate", pos, Undefined))
          => (ClientError(last'.status) /\ rooms' = rooms) ]_vars

-----------------------------------------------------------------------------
(* Chat.                                                                   *)

\* C28: the message list of a room never holds more than 100 messages; a
\* post to a room that holds 100 leaves the 50 most recent messages, the 49
\* newest of the old ones in their order and then the new one.
MessagesBounded ==
    [][ \A r \in DOMAIN rooms' :
          /\ Len(rooms'[r].messages) <= MessageCap
          /\ (/\ r \in DOMAIN rooms
              /\ Len(rooms[r].messages) = MessageCap
              /\ rooms'[r].messages # rooms[r].messages)
             => /\ last'.op = "chat"
                /\ Len(rooms'[r].messages) = MessageKeep
                /\ \A i \in 1..(MessageKeep - 1) :
                      rooms'[r].messages[i] =
                          rooms[r].messages[MessageCap - MessageKeep + 1 + i]
                /\ rooms'[r].messages[MessageKeep].timestamp = now
                /\ rooms'[r].messages[MessageKeep].userId \in Scope.clients ]_vars

\* a post has just been stored in a room that held 100 messages, the oldest
\* of them older than the post
MessagesCut ==
    /\ last.op = "chat" /\ last.status = 200
    /\ last.stored = MessageCap
    /\ rooms[last.rid].messages[1].timestamp < now

\* the first 1000 characters of a text
FirstChars(text) ==
    [i \in 1..(IF Len(text) < ChatMaxLen THEN Len(text) ELSE ChatMaxLen) |-> text[i]]

\* a chat step posts one message with the first 1000 characters of its text
\* and changes nothing else: on the Socket.IO servers for a socket that has
\* joined a room and a text in pushTexts, on the HTTP server for every text
ChatPostsOne(pushTexts) ==
    \A c \in Scope.clients, text \in Scope.texts, name \in Scope.names :
       /\ (Chat(c, text, name) /\ joinedRoomId[c] # NoRoom /\ text \in pushTexts) =>
             /\ Len(last'.emits) = 1
             /\ last'.emits[1].ev = "chat:message"
             /\ last'.emits[1].to = "room" /\ last'.emits[1].room = joinedRoomId[c]
             /\ last'.emits[1].data.text = FirstChars(text)
             /\ last'.emits[1].data.from = c
             /\ rooms' = rooms
       /\ \A roomId \in Scope.params :
             (HttpChat(c, roomId, text, name, Scope.maxMessages) /\ roomId \in DOMAIN rooms) =>
                LET old == rooms[roomId].messages
                    new == rooms'[roomId].messages
                IN /\ last'.status = 200
                   /\ new # <<>>
                   /\ new[Len(new)].text = FirstChars(text)
                   /\ new[Len(new)].userId = c
                   /\ Len(old) < MessageCap =>
                         (Len(new) = Len(old) + 1 /\ SubSeq(new, 1, Len(old)) = old)
                   /\ rooms' = [rooms EXCEPT ![roomId].messages = new]

\* C29 as stated: a chat post of any caller, host or not, stores or
\* broadcasts exactly one message whose text is the first 1000 characters of
\* the submitted text, and leaves hostId, participants, source and playback
\* of the room as they were.
ChatAlwaysPosted == [][(last'.op = "chat") => ChatPostsOne(Scope.texts)]_vars

\* C29 as amended: the same for every post on the HTTP server and for every
\* post with a text that is not empty on the Socket.IO servers, where a post
\* with an empty text is dropped.
ChatPosted ==
    [][ (last'.op = "chat") =>
           /\ ChatPostsOne(Scope.texts \ {<<>>})
           /\ \A c \in Scope.clients, name \in Scope.names :
                 Chat(c, <<>>, name) => (last'.emits = <<>> /\ rooms' = rooms) ]_vars

\* a participant who is not the host has just posted a text longer than the
\* limit, and the room was sent its first 1000 characters
LongChatByGuest ==
    /\ last.op = "chat" /\ last.wasMember /\ ~last.wasHost
    /\ last.emits # <<>>
    /\ Len(last.emits[1].data.text) = ChatMaxLen

-----------------------------------------------------------------------------
(* Room codes.                                                             *)

\* a room id as makeRoomId writes them: six characters of the alphabet
WellFormedId(id) ==
    /\ Len(id) = RoomIdLen
    /\ \A i \in DOMAIN id : \E j \in DOMAIN alphabet : id[i] = alphabet[j]

\* C30: every room of the registry, after any joins with or without a code
\* supplied by the caller, has an id of exactly 6 characters of the alphabet.
RoomIdsWellFormed ==
    \A r \in DOMAIN rooms : WellFormedId(r) /\ WellFormedId(rooms[r].id)

----------------------------------------------------------------------------
(* The page applying the room's state to its player.                       *)

\* the handlers of the page that apply a snapshot
Appliers == {"room:state", "player:set-source", "player:play", "sync:state", "loaded"}

\* the handler that ran applied the snapshot pb to a player it had, or to the
\* one whose load resolved: applyPlayback reached from room:state,
\* player:set-source or a load, the player:play handler, the sync:state
\* handler of a guest whose source is the room's
Applied(pb) ==
    \/ /\ app.player.type # "none"
       /\ \/ AppPlay(pb.at, pb.rate, pb.ts) /\ pb.status = "playing"
          \/ AppSyncState(pb.status, pb.at, pb.rate, pb.ts, app.source) /\ ~app.isHost
          \/ \E h \in Page.hosts : AppRoomState(h, app.source, pb) /\ app.source.t = "object"
    \/ AppLoaded /\ \E l \in app.loads : l.playback = pb

\* C23: a page that seeks while it applies a snapshot seeks to
\* at + (now - ts) / 1000 * rate when the snapshot is playing and to at when
\* it is paused, at every rate, in applyPlayback, player:play and sync:state.
TargetScalesWithRate ==
    [][ (app'.did.op \in Appliers) =>
           \A pb \in PagePlaybacks :
              Applied(pb) /\ app'.player.time # app.player.time =>
                 app'.player.time =
                    IF pb.status = "playing"
                    THEN pb.at + ((now - pb.ts) * RateOr1(pb.rate)) \div RateOne
                    ELSE pb.at ]_vars

\* C24: a handler of the page that applies a position moves the player if
\* and only if the player is further from the target than the threshold:
\* 0.5 s for room snapshots and the play, pause and seek events, 0.35 s for
\* sync:state; within the threshold the player is left where it is.
SeeksOnlyBeyondThreshold ==
    [][ (app'.did.op \in Appliers \cup {"player:pause", "player:seek"}) =>
           \A pb \in PagePlaybacks :
              LET cur == app.player.time
                  target == IF pb.status = "playing" THEN pb.at + (now - pb.ts) ELSE pb.at
                  moved == app'.player.time # cur
                  had == app.player.type # "none"
              IN /\ Applied(pb) =>
                      (moved <=> Abs((IF AppLoaded THEN 0 ELSE cur) - target) >
                                    (IF app'.did.op = "sync:state" THEN SyncThreshold
                                     ELSE DriftThreshold))
                 /\ had /\ AppPause(pb.at) => (moved <=> Abs(cur - pb.at) > DriftThreshold)
                 /\ had /\ AppSeek(pb.at, pb.ts) =>
                      (moved <=> Abs(cur - (pb.at + (now - pb.ts))) > DriftThreshold) ]_vars

\* C25: every snapshot the page applies leaves the player at the snapshot's
\* rate, whatever its status and whether or not the player was moved.
RateAlwaysApplied ==
    [][ (app'.did.op \in Appliers) =>
           \A pb \in PagePlaybacks :
              Applied(pb) => app'.player.rate = RateOr1(pb.rate) ]_vars

----------------------------------------------------------------------------
(* The page turning what its player reports into commands.                 *)

\* C26: an event the player reports because the page applied remote state
\* to it never makes the page emit a command, however the delivery of the
\* player's events and the timers of suppress interleave.
NoFeedbackLoop ==
    app.did.op = "event" /\ app.did.by = "remote" => app.did.sent = <<>>

\* C27: a page whose isHost flag is false sends no set-source, play, pause,
\* seek or rate command, whatever the user and the player do.
GuestSendsNothing ==
    ~app.isHost => app.did.sent = <<>>

----------------------------------------------------------------------------
(* The registry of rooms.                                                  *)

\* C31: a join that names no room allocates a room whose id no room of the
\* registry has: the caller is its only participant and its host, and no
\* room that existed is changed.
CodelessJoinAllocates ==
    [][ (last'.op = "join") =>
           \A c \in Scope.clients, name \in Scope.names, d \in Scope.draws :
              (Join(c, <<>>, name, d) \/ HttpJoin(c, <<>>, name, d)) =>
                 /\ last'.rid \notin DOMAIN rooms
                 /\ rooms'[last'.rid].hostId = c
                 /\ ParticipantIds(rooms'[last'.rid]) = {c}
                 /\ \A r \in DOMAIN rooms : rooms'[r] = rooms[r] ]_vars

\* C32: when the host of a room leaves or disconnects and several
\* participants remain, the new host is the one of them that joined first;
\* a join by a participant of the room keeps the order of the participants.
EarliestRemainingHosts ==
    [][ /\ \A c \in Clients, r \in DOMAIN rooms :
             (Departed(c, r) /\ rooms[r].hostId = c
                /\ Cardinality(ParticipantIds(rooms[r]) \ {c}) >= 2) =>
                   rooms'[r].hostId = FirstKey(MapDelete(rooms[r].participants, c))
        /\ (last'.op = "join" /\ last'.wasMember) =>
               Keys(rooms'[last'.rid]) = Keys(rooms[last'.rid]) ]_vars

\* C33: a change of rate while the room is playing, stamped with the instant
\* the server handles it, later than the instant the room started playing,
\* leaves the position of the room, read at that instant, where it was.
RateKeepsPosition ==
    [][ (last'.op = "rate" /\ last'.rid \in DOMAIN rooms
           /\ rooms'[last'.rid].playback.rate # rooms[last'.rid].playback.rate
           /\ rooms'[last'.rid].playback.ts = Num(now)
           /\ rooms[last'.rid].playback.ts.t = "num"
           /\ rooms[last'.rid].playback.ts.v < now
           /\ rooms[last'.rid].playback.status = "playing") =>
              effectiveTimeAt(rooms'[last'.rid].playback, now) =
                 effectiveTimeAt(rooms[last'.rid].playback, now) ]_vars

\* the rooms of which c is a participant
RoomsOf(c) == {r \in DOMAIN rooms : c \in ParticipantIds(rooms[r])}

\* C35: on the push servers a socket is a participant of at most one room,
\* and of none after it has disconnected.
OneRoomPerSocket ==
    mode \in PushModes =>
       \A c \in Clients :
          /\ Cardinality(RoomsOf(c)) <= 1
          /\ ~connected[c] => RoomsOf(c) = {}

\* C36: on the push servers a room with a participant has a host, and a
\* role:become-host sent by a participant of its joined room changes no
\* room's host.
OccupiedRoomHasHost ==
    mode \in PushModes =>
       /\ \A r \in DOMAIN rooms : rooms[r].participants # <<>> => rooms[r].hostId # Null
       /\ (last.op = "become-host" /\ last.wasMember) => last.emits = <<>>

\* a participant has asked to become the host of the room it is in, where
\* another participant is the host
BecomeHostAsked ==
    /\ last.op = "become-host" /\ last.wasMember /\ ~last.wasHost
    /\ Len(rooms[last.rid].participants) >= 2

\* C37: no room leaves the registry and every room is stored under its id;
\* a room that its last participant leaves keeps its source and playback and
\* has no host, and the next to join it becomes its host and is handed the
\* source and playback the room kept.
RoomsAreKept ==
    [][ /\ \A r \in DOMAIN rooms : r \in DOMAIN rooms' /\ rooms'[r].id = r
        /\ (last'.op \in {"leave", "disconnect"} /\ last'.wasMember) =>
              LET r == last'.rid IN
              /\ rooms'[r].source = rooms[r].source
              /\ rooms'[r].playback = rooms[r].playback
              /\ rooms'[r].participants = <<>> => rooms'[r].hostId = Null
        /\ (last'.op = "join" /\ last'.rid \in DOMAIN rooms
              /\ rooms[last'.rid].participants = <<>>) =>
              LET r == last'.rid IN
              /\ rooms'[r].hostId = rooms'[r].participants[1].id
              /\ rooms'[r].source = rooms[r].source
              /\ rooms'[r].playback = rooms[r].playback
              /\ last'.emits[1].data.room.source = rooms[r].source
              /\ last'.emits[1].data.room.playback = rooms[r].playback ]_vars

\* a client has joined a room that everybody had left while it was playing a
\* source, and is alone in it
JoinedDesertedRoom ==
    /\ last.op = "join" /\ ~last.wasMember
    /\ Len(rooms[last.rid].participants) = 1
    /\ rooms[last.rid].hostId = rooms[last.rid].participants[1].id
    /\ rooms[last.rid].source.t = "object"
    /\ rooms[last.rid].playback.status = "playing"

\* C38: on the HTTP server the participants of a room only grow, and a host
\* once assigned stays the host, whatever is requested.
PullRoomsOnlyGrow ==
    [][ mode = "http" =>
           \A r \in DOMAIN rooms :
              /\ ParticipantIds(rooms[r]) \subseteq ParticipantIds(rooms'[r])
              /\ rooms[r].hostId # Null => rooms'[r].hostId = rooms[r].hostId ]_vars

\* a second user has joined a room of the HTTP server that has a host
PullRoomJoined ==
    /\ mode = "http"
    /\ last.op = "join" /\ ~last.wasMember
    /\ Len(rooms[last.rid].participants) = 2
    /\ rooms[last.rid].hostId = rooms[last.rid].participants[1].id

----------------------------------------------------------------------------

(* The chat log of the polling client.                                     *)

\* C39: after the browser has handled the reply of a poll, the message lines
\* of its chat log are the messages of that reply, the twenty latest of the
\* room in order; a message posted to a room that holds twenty or more is in
\* the log after the next poll.
PollShowsReply ==
    [][ \A u \in Scope.browsers :
           BrowserPoll(u) =>
              browser'.chatLog =
                 MessageLines(LastMessages(rooms[browser.roomId].messages)) ]_vars

----------------------------------------------------------------------------

(* The two Socket.IO servers side by side.                                 *)

\* C40: the serverless handler does to the registry, and sends, what the
\* standalone server does for the same event in the same state; here for
\* player:set-source, a direct video source included.
SetSourceAgrees ==
    [][ \A c \in Scope.clients, p \in Scope.sources :
           VercelSetSource(c, p) => SetSourceHandler(c, p) ]_vars

----------------------------------------------------------------------------

(* A guest's page on the standalone server.  The socket c1 creates the     *)
(* room and is its host; the page is the page of the socket c2, which      *)
(* joins after it and handles, in order, the events the server sends to    *)
(* c2.  The events of the last server step that the page has not handled   *)
(* yet are those left in last.emits; the server handles its next event     *)
(* when the page has handled them.  The clock of the page's browser is the *)
(* server's, or runs a second ahead of it.                                 *)

Host == "c1"
Guest == "c2"
TheRoom == makeRoomId(0)
Aheads == {0, TickMs}

\* most steps of the clock in a behaviour of the guest's page
SyncTicks == 1

SyncInit ==
    /\ mode = "socket"
    /\ scope = "sync"
    /\ now = Epoch
    /\ rooms = << >>
    /\ joinedRoomId = [c \in Clients |-> NoRoom]
    /\ connected = [c \in Clients |-> TRUE]
    /\ last = [op |-> "init", rid |-> NoRoom, wasHost |-> FALSE, wasMember |-> FALSE,
               stored |-> 0, status |-> 0, emits |-> <<>>]
    /\ browser = [roomId |-> NoRoom, source |-> NullSource, playback |-> NullPlayback,
                  player |-> NoPlayer, loads |-> {}, chatLog |-> <<>>]
    /\ \E d \in Aheads :
          app = [isHost |-> FALSE, source |-> NullSource, playback |-> NoAppPlayback,
                 player |-> NoAppPlayer, suppress |-> FALSE, timers |-> 0,
                 events |-> <<>>, loads |-> {}, uploading |-> FALSE, ahead |-> d,
                 did |-> Idle("init")]

\* the events the page has a listener for
PageEvents ==
    {"room:welcome", "room:state", "player:set-source", "player:play", "player:pause",
     "sync:state"}

\* the events sent to c2 that its page has not handled yet
Pending ==
    IF joinedRoomId[Guest] = NoRoom THEN <<>>
    ELSE SelectSeq(last.emits, LAMBDA e : e.ev \in PageEvents)

\* a number of the server as the page reads it from the event: a number as
\* it is, a missing one as 0
Wire(x) == IF x.t = "num" THEN x.v ELSE 0

WirePlayback(pb) ==
    [status |-> pb.status, at |-> Wire(pb.at), rate |-> Wire(pb.rate), ts |-> Wire(pb.ts)]

\* the page after the listener of the event e has run
Handled(e) ==
    CASE e.ev = "room:welcome" ->
           AppUpdateSource([Begin("room:state") EXCEPT !.isHost = (e.data.room.hostId = Guest)],
                           e.data.room.source, WirePlayback(e.data.room.playback), FALSE)
      [] e.ev = "room:state" ->
           AppUpdateSource([Begin("room:state") EXCEPT !.isHost = (e.data.hostId = Guest)],
                           e.data.source, WirePlayback(e.data.playback), FALSE)
      [] e.ev = "player:set-source" ->
           AppUpdateSource(Begin("player:set-source"), e.data.source,
                           WirePlayback(e.data.playback), TRUE)
      [] e.ev = "player:play" ->
           OnPlay(Wire(e.data.at), Wire(e.data.rate), Wire(e.data.ts))
      [] e.ev = "player:pause" -> OnPause(Wire(e.data.at))
      [] e.ev = "sync:state" ->
           OnSyncState(e.data.status, Wire(e.data.at), Wire(e.data.rate), Wire(e.data.ts),
                       e.data.source)

\* the page handles the oldest event sent to it
GuestHears ==
    /\ Pending # <<>>
    /\ LET a == Handled(Head(Pending)) IN
       /\ Len(a.events) <= MaxEvents
       /\ a.timers <= MaxTimers
       /\ Cardinality(a.loads) <= MaxLoads
       /\ app' = a
       /\ last' = [last EXCEPT !.emits = Tail(Pending)]
    /\ UNCHANGED <<mode, scope, now, rooms, joinedRoomId, connected, browser>>

\* c1 creates the room
HostJoins ==
    /\ TheRoom \notin DOMAIN rooms
    /\ Join(Host, TheRoom, "", 0)

\* c2 joins it: the click on Join of the page
GuestJoins ==
    /\ TheRoom \in DOMAIN rooms
    /\ joinedRoomId[Guest] = NoRoom
    /\ Join(Guest, TheRoom, "", 0)

\* the commands of the host
HostSetsSource ==
    /\ Pending = <<>>
    /\ SetSource(Host, [present |-> TRUE, type |-> "youtube", url |-> "yt", videoId |-> "vid"])

HostPlays ==
    /\ Pending = <<>>
    /\ \E rate \in {Num(RateOne), Num(2 * RateOne)} : Play(Host, Num(0), rate, Undefined)

HostPauses ==
    /\ Pending = <<>>
    /\ Pause(Host, Num(400), Undefined)

\* a turn of the interval of the page: if (!player || me.isHost || !me.roomId)
\* return; socket.emit('sync:request'), and the server's reply
GuestAsks ==
    /\ Pending = <<>>
    /\ app.player.type # "none"
    /\ ~app.isHost
    /\ joinedRoomId[Guest] # NoRoom
    /\ SyncRequest(Guest)

SyncNext ==
    \/ HostJoins
    \/ GuestJoins
    \/ HostSetsSource
    \/ HostPlays
    \/ HostPauses
    \/ GuestAsks
    \/ GuestHears
    \/ AppLoaded
    \/ AppTimer
    \/ AppPlayerEvent
    \/ AppTick(SyncTicks)

\* the interval fires, events sent are delivered, loads resolve, timers fire
\* and the player reports its events
SyncSpec ==
    /\ SyncInit
    /\ [][SyncNext]_vars
    /\ WF_vars(GuestAsks)
    /\ WF_vars(GuestHears)
    /\ WF_vars(AppLoaded)
    /\ WF_vars(AppTimer)
    /\ WF_vars(AppPlayerEvent)

\* the host has issued no command in the last server step
Quiet == last.op \notin {"join", "set-source", "play", "pause"}

\* the page of c2 is a guest's, in the room, with a player
Settled ==
    /\ joinedRoomId[Guest] = TheRoom
    /\ TheRoom \in DOMAIN rooms
    /\ ~app.isHost
    /\ app.player.type # "none"

\* the player of the page has the status of the room's playback and is
\* within the drift threshold of the server's position
Agrees ==
    /\ Settled
    /\ app.player.status = rooms[TheRoom].playback.status
    /\ Abs(app.player.time - effectiveTimeAt(rooms[TheRoom].playback, now).v) <= DriftThreshold

\* C34: when the host issues no further command, the player of a guest's
\* page that has loaded comes to agree with the room: the same status, a
\* position within the drift threshold of the server's, also when the page
\* dropped player:play or player:pause while its player was loading.
GuestConverges == <>[](Quiet /\ Settled) => []<>Agrees

====
